---- MODULE Spec2Model ----
(***************************************************************************)
(* Presence and room orchestrator of SkyOffice: the room directory, the    *)
(* NPC assignment engine, the registry reconciler, the NPC handshake and   *)
(* the manager-token verifier, modelled from the TypeScript sources.       *)
(*                                                                         *)
(* Conventions.  A JavaScript Map is a function whose DOMAIN is the set of *)
(* keys present.  An absent or empty string is "".  A namespace slug is    *)
(* the sequence of its dot-separated labels, so that split('.')[0] is      *)
(* Head and includes('.') is Len > 1.  Letter case is carried by the       *)
(* strings themselves and toLowerCase is the operator Lower.               *)
(* assignedAt and agentMetadata of an assignment are not part of the state.*)
(***************************************************************************)
EXTENDS Integers, Sequences, FiniteSets, TLC

\* ------------------------------------------------------------------ bounds
MaxRooms == 3        \* rooms the matchmaker creates in one run
MaxPasswordRooms == 1  \* rooms with a password among them, where counted

\* ------------------------------------------------------------- generic maps
Has(f, k) == k \in DOMAIN f
Put(f, k, v) == [x \in (DOMAIN f) \cup {k} |-> IF x = k THEN v ELSE f[x]]
Del(f, k) == [x \in (DOMAIN f) \ {k} |-> f[x]]
EmptyMap == [x \in {} |-> x]

\* ------------------------------------------------------------------- names
RoomIds == 1..MaxRooms

\* String.prototype.toLowerCase on the identifiers the model draws from.
Lower(s) ==
  CASE s = "A1" -> "a1"
    [] s = "Beta" -> "beta"
    [] s = "Bob" -> "bob"
    [] OTHER -> s

AgentIds == {"a1", "A1", "a2"}

\* `npc-${agentId}`, kept apart from the session ids of human clients.
getNpcKey(agentId) == <<"npc", agentId>>
SessionKey(sessionId) == <<"sess", sessionId>>

\* The five computers seeded by onCreate.
ComputerIds == {"0", "1", "2", "3", "4"}

\* The three whiteboards seeded by onCreate.
WhiteboardIds == {"0", "1", "2"}

\* shared/workstationSeats: the static workstation -> computer table.
resolveComputerIdFromWorkstation(workstationId) ==
  CASE workstationId = "design-studio" -> "0"
    [] workstationId = "dev-desk" -> "1"
    [] OTHER -> ""

avatarAnimMap ==
  [a \in {"adam", "ash", "lucy", "nancy"} |-> <<a, "idle_down">>]
getIdleAnim(avatarId) ==
  IF avatarId \in DOMAIN avatarAnimMap THEN avatarAnimMap[avatarId]
  ELSE <<"adam", "idle_down">>
getSittingAnim(avatarId) == <<avatarId, "sit_down">>

normaliseNpcRole(role) ==
  IF role = "" THEN "GM"
  ELSE IF Lower(role) = "office secretary" THEN "GM"
  ELSE role

\* bcrypt.hash / bcrypt.compare; <<>> is the null password.
NoPassword == <<>>
BcryptHash(plain) == <<"bcrypt", plain>>
BcryptCompare(plain, hash) == hash = BcryptHash(plain)

\* toLowerCase of a dotted name, label by label.
LowerSlug(s) == [i \in DOMAIN s |-> Lower(s[i])]
\* process.env.OFFICE_BASE_DOMAIN || 'office.xyz'
BaseDomain == <<"office", "xyz">>

\* ------------------------------------------------------ manager tokens
\* A base64url character is its 6-bit value, a segment is a sequence of
\* them and a token string is the sequence of its '.'-separated segments
\* (<<>> is the empty string).  A Buffer is a sequence of bytes.
Sextets == 0..63

\* Bit i (from 1, most significant first) of a sequence of w-bit units, 0
\* beyond its end.
BitOf(units, w, i) ==
  IF i > w * Len(units) THEN 0
  ELSE (units[((i - 1) \div w) + 1] \div 2^((w - 1) - ((i - 1) % w))) % 2

\* Buffer.toString('base64url'): no padding, the last character
\* zero-filled.
Base64UrlEncode(bytes) ==
  [j \in 1..((8 * Len(bytes) + 5) \div 6) |->
     32 * BitOf(bytes, 8, 6 * (j - 1) + 1) + 16 * BitOf(bytes, 8, 6 * (j - 1) + 2)
     + 8 * BitOf(bytes, 8, 6 * (j - 1) + 3) + 4 * BitOf(bytes, 8, 6 * (j - 1) + 4)
     + 2 * BitOf(bytes, 8, 6 * (j - 1) + 5) + BitOf(bytes, 8, 6 * (j - 1) + 6)]

\* Buffer.from(padded, 'base64'): every whole byte of the characters; the
\* bits left over in the last characters are dropped, whatever they are.
Base64Decode(segment) ==
  [j \in 1..((6 * Len(segment)) \div 8) |->
     128 * BitOf(segment, 6, 8 * (j - 1) + 1) + 64 * BitOf(segment, 6, 8 * (j - 1) + 2)
     + 32 * BitOf(segment, 6, 8 * (j - 1) + 3) + 16 * BitOf(segment, 6, 8 * (j - 1) + 4)
     + 8 * BitOf(segment, 6, 8 * (j - 1) + 5) + 4 * BitOf(segment, 6, 8 * (j - 1) + 6)
     + 2 * BitOf(segment, 6, 8 * (j - 1) + 7) + BitOf(segment, 6, 8 * (j - 1) + 8)]

\* The payloads a token can carry: "" is no agentId, <<>> no namespace and
\* 0 no exp.
TokenAgents == <<"", "a1", "a2", "A1">>
TokenNamespaces == << <<>>, <<"alpha">> >>
TokenExps == <<0, 50, 150>>
TokenPayloads ==
  [agentId : {TokenAgents[i] : i \in DOMAIN TokenAgents},
   namespace : {TokenNamespaces[i] : i \in DOMAIN TokenNamespaces},
   exp : {TokenExps[i] : i \in DOMAIN TokenExps}]

IndexIn(seq, x) == CHOOSE i \in DOMAIN seq : seq[i] = x

\* JSON.stringify of a payload as UTF-8 bytes: one text per payload, here
\* a single byte.
JsonStringify(payload) ==
  << (IndexIn(TokenAgents, payload.agentId) - 1)
     + 4 * (IndexIn(TokenExps, payload.exp) - 1)
     + 12 * (IndexIn(TokenNamespaces, payload.namespace) - 1) >>

\* JSON.parse: the payload whose text the bytes are; other bytes throw.
JsonParses(bytes) == \E p \in TokenPayloads : JsonStringify(p) = bytes
JsonParse(bytes) == CHOOSE p \in TokenPayloads : JsonStringify(p) = bytes

\* The secrets in use.
Secrets == {"k1", "k2"}
SecretByte(secret) == IF secret = "k1" THEN 17 ELSE 34

\* crypto.createHmac('sha256', secret).update(`${header}.${body}`).digest():
\* an ideal MAC, different for different secrets or different signing
\* inputs.  Five bytes, so that like the 32 of SHA-256 they end two bits
\* into the last base64 character.
SigningNumber(input) ==
  IF Len(input) = 0 THEN 0
  ELSE input[1]
       + (IF Len(input) > 1 THEN 64 * input[2] ELSE 0)
       + (IF Len(input) > 2 THEN 4096 * input[3] ELSE 0)
       + (IF Len(input) > 3 THEN 262144 * input[4] ELSE 0)
Hmac(secret, encodedHeader, encodedBody) ==
  LET n == SigningNumber(encodedHeader \o encodedBody)
  IN << SecretByte(secret), n \div 65536, (n \div 256) % 256, n % 256,
        Len(encodedHeader) + 16 * Len(encodedBody) >>

\* Date.now() / 1000 at the verification.
Now == 100

\* The header segment of the issuer's tokens.
TokenHeader == <<30, 9>>

\* The token the issuer signs for a payload with a secret.
SignManagerToken(secret, payload) ==
  LET encodedBody == Base64UrlEncode(JsonStringify(payload))
  IN << TokenHeader, encodedBody,
        Base64UrlEncode(Hmac(secret, TokenHeader, encodedBody)) >>

\* decodeBase64UrlSegment: whether the segment passes BASE64_URL_REGEXP.
IsBase64Url(segment) ==
  Len(segment) > 0 /\ \A i \in DOMAIN segment : segment[i] \in Sextets

NoPayload == [agentId |-> "", namespace |-> <<>>, exp |-> 0]
TokenError(message) == [ok |-> FALSE, error |-> message, payload |-> NoPayload]

\* verifyManagerToken(token, secret): the payload, or the error thrown.
verifyManagerToken(token, secret) ==
  IF token = <<>> THEN TokenError("Token is required")
  ELSE IF secret = "" THEN TokenError("Manager token secret not configured")
  ELSE IF Len(token) # 3 THEN TokenError("Invalid token format")
  ELSE LET encodedHeader == token[1]
           encodedBody == token[2]
           signature == token[3]
           expectedBuffer == Hmac(secret, encodedHeader, encodedBody)
           actualBuffer == Base64Decode(signature)
       IN IF Len(expectedBuffer) # Len(actualBuffer)
            THEN TokenError("Invalid token signature")
          ELSE IF expectedBuffer # actualBuffer
            THEN TokenError("Invalid token signature")
          ELSE IF ~IsBase64Url(encodedBody)
            THEN TokenError("Invalid base64url segment")
          ELSE IF ~JsonParses(Base64Decode(encodedBody))
            THEN TokenError("SyntaxError")
          ELSE LET payload == JsonParse(Base64Decode(encodedBody))
               IN IF payload.exp # 0 /\ Now > payload.exp
                  THEN TokenError("Token expired")
                  ELSE [ok |-> TRUE, error |-> "", payload |-> payload]

\* ------------------------------------------------------------------- state
VARIABLES
  roomState,        \* roomId -> "none" | "live" | "closing" | "disposed"
  roomName,         \* roomId -> this.name
  roomSlug,         \* roomId -> this.namespaceSlug
  roomBacked,       \* roomId -> isRegistryBacked()
  roomAutoDispose,  \* roomId -> this.autoDispose
  roomPassword,     \* roomId -> this.password (a bcrypt hash, or NoPassword)
  activeRooms,      \* SkyOffice.activeRooms, the set of its keys
  namespaceRooms,   \* SkyOffice.namespaceRooms: slug -> roomId
  listings,         \* roomIds listed by the matchmaker
  roomRows,         \* rows of the rooms table, by name
  players,          \* roomId -> (session key -> Player)
  computers,        \* roomId -> (computerId -> connectedUser set)
  whiteboards,      \* roomId -> (whiteboardId -> connectedUser set)
  npcAssignments,   \* roomId -> (agentId -> NpcAssignment)
  presence,         \* roomId -> online counts of the room metadata
  clients,          \* roomId -> session ids of the joined clients
  npcStore,         \* rows of the npcs table, by agentId
  registrySyncInFlight, \* the gate of runRegistryEnsure
  ens,              \* caller -> the locals of its ensureRegistryRooms run
  dn,               \* task -> the locals of its destroyNamespace run
  deploy,           \* the /api/deploy-character request awaiting its query
  sync,             \* officeId -> the scheduleRegistryAgentSync task of
                    \* the office: its timer, or its fetch of the agents
  vt,               \* a verifyManagerToken call: its arguments and result
  pf,               \* a findPath call: its grid, its arguments and its result
  env,              \* process.env: the static presence secret, the office id;
                    \* the npcs rows on disk when the process started; and
                    \* the secrets the tenant keys of the office and the
                    \* Registry credential endpoint answer with now; and
                    \* the agents the Registry lists for the office now
  secretCache,      \* the presence secrets cached by resolvePresenceSecret
  auth,             \* the handshake of the connecting client
  lastOp,           \* the call the last step made, with what it found
  tickStart         \* what a reconciler run found when it fetched the offices

\* The state as one record, so that an operation is a function from the
\* state before to the state after and calls compose.
World ==
  [roomState |-> roomState, roomName |-> roomName, roomSlug |-> roomSlug,
   roomBacked |-> roomBacked, roomAutoDispose |-> roomAutoDispose,
   roomPassword |-> roomPassword, activeRooms |-> activeRooms,
   namespaceRooms |-> namespaceRooms, listings |-> listings,
   roomRows |-> roomRows, players |-> players, computers |-> computers,
   whiteboards |-> whiteboards,
   npcAssignments |-> npcAssignments, presence |-> presence,
   clients |-> clients, npcStore |-> npcStore,
   registrySyncInFlight |-> registrySyncInFlight, ens |-> ens, dn |-> dn,
   deploy |-> deploy, sync |-> sync, vt |-> vt, pf |-> pf, env |-> env, secretCache |-> secretCache,
   auth |-> auth]

SetWorld(w) ==
  /\ roomState' = w.roomState
  /\ roomName' = w.roomName
  /\ roomSlug' = w.roomSlug
  /\ roomBacked' = w.roomBacked
  /\ roomAutoDispose' = w.roomAutoDispose
  /\ roomPassword' = w.roomPassword
  /\ activeRooms' = w.activeRooms
  /\ namespaceRooms' = w.namespaceRooms
  /\ listings' = w.listings
  /\ roomRows' = w.roomRows
  /\ players' = w.players
  /\ computers' = w.computers
  /\ whiteboards' = w.whiteboards
  /\ npcAssignments' = w.npcAssignments
  /\ presence' = w.presence
  /\ clients' = w.clients
  /\ npcStore' = w.npcStore
  /\ registrySyncInFlight' = w.registrySyncInFlight
  /\ ens' = w.ens
  /\ dn' = w.dn
  /\ deploy' = w.deploy
  /\ sync' = w.sync
  /\ vt' = w.vt
  /\ pf' = w.pf
  /\ env' = w.env
  /\ secretCache' = w.secretCache
  /\ auth' = w.auth

\* ------------------------------------------------------ the NPC engine
\* updatePresenceMetadata
updatePresenceMetadata(w, r) ==
  LET clientCount == Cardinality(w.clients[r])
      npcCount == Cardinality(DOMAIN w.npcAssignments[r])
  IN [w EXCEPT !.presence[r] =
        [clientsOnlineCount |-> clientCount,
         npcOnlineCount |-> npcCount,
         totalOnlineCount |-> clientCount + npcCount]]

\* NpcStore.saveNpc: INSERT OR REPLACE keyed by agentId
saveNpc(store, row) ==
  IF row.agentId = "" THEN store ELSE Put(store, row.agentId, row)

\* NpcStore.removeNpc: DELETE WHERE agentId = ?
removeNpcPersist(store, agentId) ==
  IF agentId = "" THEN store ELSE Del(store, agentId)

\* An assignNpcToWorkstation that reads alreadyConnected before it clears
\* the previous occupancy.
assignNpcToWorkstationCheckingFirst(comps, playerKey, payload) ==
  LET computerId ==
        IF payload.computerId # "" THEN payload.computerId
        ELSE resolveComputerIdFromWorkstation(payload.workstationId)
      cleared == [c \in DOMAIN comps |-> comps[c] \ {playerKey}]
  IN IF payload.workstationId = "" THEN [computers |-> comps, computerId |-> ""]
     ELSE IF computerId = "" THEN [computers |-> comps, computerId |-> ""]
     ELSE IF computerId \notin DOMAIN comps
       THEN [computers |-> cleared, computerId |-> ""]
     ELSE IF playerKey \in comps[computerId]
       THEN [computers |-> cleared, computerId |-> computerId]
     ELSE [computers |-> [cleared EXCEPT ![computerId] = @ \cup {playerKey}],
           computerId |-> computerId]

\* assignNpcToWorkstation: the computers of the room afterwards, and the
\* computerId it returns ("" for undefined).
assignNpcToWorkstation(comps, playerKey, payload) ==
  LET computerId ==
        IF payload.computerId # "" THEN payload.computerId
        ELSE resolveComputerIdFromWorkstation(payload.workstationId)
      cleared == [c \in DOMAIN comps |-> comps[c] \ {playerKey}]
  IN IF payload.workstationId = "" THEN [computers |-> comps, computerId |-> ""]
     ELSE IF computerId = "" THEN [computers |-> comps, computerId |-> ""]
     ELSE IF computerId \notin DOMAIN comps
       THEN [computers |-> cleared, computerId |-> ""]
     ELSE [computers |-> [cleared EXCEPT ![computerId] = @ \cup {playerKey}],
           computerId |-> computerId]

\* The row upsertNpc hands to saveNpc.
NpcRow(assignment, name) ==
  [agentId |-> assignment.agentId,
   registryAgentId |-> assignment.registryAgentId,
   officeId |-> assignment.officeId,
   name |-> assignment.name,
   avatarId |-> assignment.avatarId,
   workstationId |-> assignment.workstationId,
   position |-> assignment.position,
   role |-> assignment.role,
   computerId |-> assignment.computerId,
   roomName |-> name,
   namespaceSlug |-> assignment.namespaceSlug]

\* upsertNpc(payload, options) on room r
upsertNpc(w, r, payload, options) ==
  LET key == getNpcKey(payload.agentId)
      seat == assignNpcToWorkstation(w.computers[r], key, payload)
      assignedComputerId == seat.computerId
      player ==
        [name |-> payload.name,
         position |-> payload.position,
         readyToConnect |-> TRUE,
         videoConnected |-> FALSE,
         anim |-> IF assignedComputerId # "" \/ payload.computerId # ""
                  THEN getSittingAnim(payload.avatarId)
                  ELSE getIdleAnim(payload.avatarId)]
      assignment ==
        [agentId |-> payload.agentId,
         name |-> payload.name,
         avatarId |-> payload.avatarId,
         workstationId |-> payload.workstationId,
         position |-> payload.position,
         officeId |-> payload.officeId,
         registryAgentId |-> payload.registryAgentId,
         namespaceSlug |->
           IF payload.namespaceSlug # <<>> THEN payload.namespaceSlug
           ELSE w.roomSlug[r],
         role |-> normaliseNpcRole(payload.role),
         roomId |-> r,
         computerId |->
           IF assignedComputerId # "" THEN assignedComputerId
           ELSE payload.computerId]
      w1 == [w EXCEPT !.players[r] = Put(@, key, player),
                      !.computers[r] = seat.computers,
                      !.npcAssignments[r] = Put(@, payload.agentId, assignment)]
      w2 == IF options.skipPersistence THEN w1
            ELSE [w1 EXCEPT !.npcStore =
                    saveNpc(@, NpcRow(assignment, w.roomName[r]))]
  IN updatePresenceMetadata(w2, r)

\* What upsertNpc leaves behind when saveNpc throws: the call is in no try
\* block (lines 576-596), so upsertNpc throws there, after the player, the
\* seat and the assignment are set and before the Registry sync and
\* updatePresenceMetadata.
upsertNpcThrown(w, r, payload) ==
  [upsertNpc(w, r, payload,
             [skipPersistence |-> TRUE, skipRegistrySync |-> TRUE])
     EXCEPT !.presence[r] = w.presence[r]]

\* syncNpcToRegistry(assignment): the PATCH requests it issues.
syncNpcToRegistry(assignment) ==
  IF assignment.officeId = "" \/ assignment.registryAgentId = "" THEN <<>>
  ELSE <<[officeId |-> assignment.officeId,
          registryAgentId |-> assignment.registryAgentId,
          isPresentInSkyOffice |-> TRUE]>>

\* syncNpcRemovalFromRegistry(assignment): the PATCH requests it issues.
syncNpcRemovalFromRegistry(assignment) ==
  IF assignment.officeId = "" \/ assignment.registryAgentId = "" THEN <<>>
  ELSE <<[officeId |-> assignment.officeId,
          registryAgentId |-> assignment.registryAgentId,
          isPresentInSkyOffice |-> FALSE]>>

\* The PATCH requests a call of upsertNpc issues.
upsertNpcRegistrySync(w, r, payload, options) ==
  IF options.skipRegistrySync THEN <<>>
  ELSE syncNpcToRegistry(
         upsertNpc(w, r, payload, options).npcAssignments[r][payload.agentId])

\* The PATCH requests a call of removeNpc issues.
removeNpcRegistrySync(w, r, agentId) ==
  IF Has(w.npcAssignments[r], agentId)
  THEN syncNpcRemovalFromRegistry(w.npcAssignments[r][agentId])
  ELSE <<>>

\* A removeNpc that forgets the players map.
removeNpcKeepingPlayer(w, r, agentId) ==
  LET key == getNpcKey(agentId)
      existed == Has(w.npcAssignments[r], agentId)
      w1 == [w EXCEPT !.npcAssignments[r] = Del(@, agentId),
                      !.computers[r] = [c \in DOMAIN @ |-> @[c] \ {key}],
                      !.npcStore = removeNpcPersist(@, agentId)]
  IN [world |-> updatePresenceMetadata(w1, r), existed |-> existed]

\* removeNpc(agentId) on room r: the state afterwards and the value returned.
removeNpc(w, r, agentId) ==
  LET key == getNpcKey(agentId)
      existed == Has(w.npcAssignments[r], agentId)
      w1 == [w EXCEPT !.npcAssignments[r] = Del(@, agentId),
                      !.players[r] = Del(@, key),
                      !.computers[r] = [c \in DOMAIN @ |-> @[c] \ {key}],
                      !.npcStore = removeNpcPersist(@, agentId)]
  IN [world |-> updatePresenceMetadata(w1, r), existed |-> existed]

\* removeNpcEverywhere: removeNpc on every active room.
RECURSIVE removeNpcInRooms(_, _, _)
removeNpcInRooms(w, rooms, agentId) ==
  IF rooms = {} THEN w
  ELSE LET r == CHOOSE x \in rooms : TRUE
       IN removeNpcInRooms(removeNpc(w, r, agentId).world, rooms \ {r}, agentId)

removeNpcEverywhere(w, agentId) == removeNpcInRooms(w, w.activeRooms, agentId)

\* ------------------------------------------------------ room lifecycle
\* onCreate(options) of the room the matchmaker created under roomId r.
onCreate(w, r, options) ==
  LET resolvedNamespace ==
        IF options.namespaceSlug # <<>> THEN options.namespaceSlug
        ELSE options.name
      slug == LowerSlug(resolvedNamespace)
      password ==
        IF options.passwordHash # NoPassword THEN options.passwordHash
        ELSE IF options.password # "" THEN BcryptHash(options.password)
        ELSE NoPassword
      w1 == [w EXCEPT !.roomState[r] = "live",
                      !.roomName[r] = options.name,
                      !.roomSlug[r] = slug,
                      !.roomBacked[r] = options.registryBacked,
                      !.roomAutoDispose[r] = options.autoDispose,
                      !.roomPassword[r] = password,
                      !.activeRooms = @ \cup {r},
                      !.listings = @ \cup {r},
                      !.roomRows = @ \cup {options.name},
                      !.computers[r] = [c \in ComputerIds |-> {}],
                      !.whiteboards[r] = [b \in WhiteboardIds |-> {}]]
  IN IF slug = <<>> THEN w1
     ELSE [w1 EXCEPT !.namespaceRooms = Put(@, slug, r)]

\* An onDispose that leaves the directory entry in place.
onDisposeKeepingEntry(w, r) ==
  [w EXCEPT !.roomState[r] = "disposed",
            !.activeRooms = @ \ {r},
            !.listings = @ \ {r},
            !.clients[r] = {}]

\* An onDispose that deletes the entry of its slug without comparing.
onDisposeDeletingAnyEntry(w, r) ==
  [w EXCEPT !.roomState[r] = "disposed",
            !.activeRooms = @ \ {r},
            !.listings = @ \ {r},
            !.clients[r] = {},
            !.namespaceRooms = Del(@, w.roomSlug[r])]

\* onDispose of room r (the matchmaker drops its listing with it).
onDispose(w, r) ==
  LET slug == w.roomSlug[r]
      w1 == [w EXCEPT !.roomState[r] = "disposed",
                      !.activeRooms = @ \ {r},
                      !.listings = @ \ {r},
                      !.clients[r] = {}]
  IN IF slug # <<>> /\ Has(w.namespaceRooms, slug) /\ w.namespaceRooms[slug] = r
     THEN [w1 EXCEPT !.namespaceRooms = Del(@, slug)]
     ELSE w1

\* Room.disconnect() as called on r: the room stops accepting and disposes
\* in a later task.
disconnect(w, r) ==
  IF w.roomState[r] = "live" THEN [w EXCEPT !.roomState[r] = "closing"] ELSE w

\* ---------------------------------------------------- destroyNamespace
\* The sub-steps of destroyNamespace that can throw or reject, by the call
\* that fails; "none" when no sub-step fails.
DnFaults ==
  {"none", "disconnect", "deleteRoomByName", "listing.remove", "allNpcs",
   "removeNpcEverywhere", "removeNpcPersist"}

\* The locals of a run, and the sub-step that fails in it (fault).
DnIdle ==
  [pc |-> "idle", cands |-> <<>>, all |-> {}, room |-> 0,
   removedRooms |-> <<>>, removedAgents |-> {}, fault |-> "none"]

\* slugCandidates, in insertion order.
slugCandidates(raw) ==
  IF Len(raw) > 1 THEN
    IF raw[1] # "" /\ <<raw[1]>> # raw THEN <<raw, <<raw[1]>> >> ELSE <<raw>>
  ELSE <<raw, raw \o BaseDomain>>

\* slugCandidates.has(ns) || slugCandidates.has(ns.split('.')[0])
InCandidates(all, ns) == ns \in all \/ (ns # <<>> /\ <<ns[1]>> \in all)

RECURSIVE removeNpcsOfRoom(_, _, _, _)
removeNpcsOfRoom(w, t, r, agents) ==
  IF agents = {} THEN w
  ELSE LET a == CHOOSE x \in agents : TRUE
           res == removeNpc(w, r, a)
           w1 == IF res.existed
                 THEN [res.world EXCEPT !.dn[t].removedAgents = @ \cup {a}]
                 ELSE res.world
       IN removeNpcsOfRoom(w1, t, r, agents \ {a})

\* deleteRoomByName(slug)
deleteRoomByName(rows, name) == IF name = <<>> THEN rows ELSE rows \ {name}

\* The loop body of destroyNamespace for the first remaining candidate, up
\* to its first await.
dnCandidate(w, t) ==
  LET slug == Head(w.dn[t].cands)
      all == w.dn[t].all
  IN IF Has(w.namespaceRooms, slug)
     THEN LET r == w.namespaceRooms[slug]
              matching ==
                {a \in DOMAIN w.npcAssignments[r] :
                   InCandidates(all, LowerSlug(w.npcAssignments[r][a].namespaceSlug))}
              w1 == removeNpcsOfRoom(w, t, r, matching)
          IN [disconnect(w1, r) EXCEPT !.dn[t].pc = "disconnect", !.dn[t].room = r]
     ELSE [w EXCEPT !.roomRows = IF w.dn[t].fault = "deleteRoomByName" THEN @
                                ELSE deleteRoomByName(@, slug),
                    !.dn[t].pc = "query", !.dn[t].room = 0]

\* destroyNamespace(namespaceSlug), up to its first await.
destroyNamespace(w, t, namespaceSlug) ==
  LET raw == LowerSlug(namespaceSlug)
      cands == slugCandidates(raw)
  IN IF raw = <<>> THEN [w EXCEPT !.dn[t] = [DnIdle EXCEPT !.pc = "done"]]
     ELSE dnCandidate(
            [w EXCEPT !.dn[t] =
               [DnIdle EXCEPT !.cands = cands,
                              !.all = {cands[i] : i \in DOMAIN cands},
                              !.fault = w.dn[t].fault]], t)

\* after `await activeRoom.disconnect()`, resolved or rejected
dnDisconnected(w, t) ==
  [w EXCEPT !.dn[t].removedRooms = IF w.dn[t].fault = "disconnect" THEN @
                                   ELSE Append(@, w.dn[t].room),
            !.roomRows = IF w.dn[t].fault = "deleteRoomByName" THEN @
                         ELSE deleteRoomByName(@, Head(w.dn[t].cands)),
            !.dn[t].pc = "query"]

\* Whether removeListings removes the listing of room r.
listingMatches(w, all, r) ==
  \/ InCandidates(all, w.roomSlug[r])
  \/ InCandidates(all, LowerSlug(w.roomName[r]))

RECURSIVE AppendNew(_, _)
AppendNew(seq, ids) ==
  IF ids = {} THEN seq
  ELSE LET i == CHOOSE x \in ids : \A y \in ids : x <= y
       IN AppendNew(IF \E k \in DOMAIN seq : seq[k] = i THEN seq ELSE Append(seq, i),
                    ids \ {i})

\* removeListings(listings, slugCandidates, removedRooms)
removeListings(w, t, found) ==
  LET matched == {r \in found : listingMatches(w, w.dn[t].all, r)}
  IN [w EXCEPT !.listings = IF w.dn[t].fault = "listing.remove" THEN @
                            ELSE @ \ matched,
               !.dn[t].removedRooms = AppendNew(@, matched)]

RECURSIVE purgeNpcs(_, _, _)
purgeNpcs(w, t, agents) ==
  IF agents = {} THEN w
  ELSE LET a == CHOOSE x \in agents : TRUE
           w1 == IF w.dn[t].fault = "removeNpcEverywhere" THEN w
                 ELSE removeNpcEverywhere(w, a)
       IN purgeNpcs([w1 EXCEPT !.npcStore = IF w.dn[t].fault = "removeNpcPersist"
                                            THEN @ ELSE removeNpcPersist(@, a),
                               !.dn[t].removedAgents = @ \cup {a}],
                    t, agents \ {a})

\* A purge that reports the persisted NPCs of the namespace and deletes no
\* row.
dnPurgeKeepingRows(w, t) ==
  LET all == w.dn[t].all
      persistedNpcs ==
        {a \in DOMAIN w.npcStore :
           LET row == w.npcStore[a]
               namespace == LowerSlug(IF row.namespaceSlug # <<>>
                                      THEN row.namespaceSlug ELSE row.roomName)
           IN namespace # <<>> /\ InCandidates(all, namespace)}
  IN [w EXCEPT !.dn[t].removedAgents = @ \cup persistedNpcs,
               !.dn[t].pc = "done", !.dn[t].all = {}]

\* The tail of destroyNamespace: the purge of the persisted NPC rows.  The
\* read of the rows (allNpcs(), line 417) is in no try block: when it throws
\* the promise of destroyNamespace rejects.
dnPurge(w, t) ==
  LET all == w.dn[t].all
      persistedNpcs ==
        {a \in DOMAIN w.npcStore :
           LET row == w.npcStore[a]
               namespace == LowerSlug(IF row.namespaceSlug # <<>>
                                      THEN row.namespaceSlug ELSE row.roomName)
           IN namespace # <<>> /\ InCandidates(all, namespace)}
  IN IF w.dn[t].fault = "allNpcs"
     THEN [w EXCEPT !.dn[t].pc = "rejected", !.dn[t].all = {}]
     ELSE [purgeNpcs(w, t, persistedNpcs) EXCEPT !.dn[t].pc = "done",
                                                 !.dn[t].all = {}]

\* after `await matchMaker.query({ name: slug })`, which found `found`
dnQueried(w, t, found) ==
  LET slug == Head(w.dn[t].cands)
      w1 == removeListings(w, t, found)
      w2 == [w1 EXCEPT !.namespaceRooms = Del(@, slug),
                       !.dn[t].cands = Tail(@), !.dn[t].room = 0]
  IN IF w2.dn[t].cands # <<>> THEN dnCandidate(w2, t) ELSE dnPurge(w2, t)

\* ------------------------------------------------- registry reconciler
\* The two places that call runRegistryEnsure: bootstrapRegistrySync and
\* the setInterval callback.
Callers == {"boot", "tick"}
\* The runs of destroyNamespace: one per reconciler caller (its prune) and
\* one for DELETE /api/rooms/:namespaceSlug.
Tasks == Callers \cup {"api"}

\* The offices the Registry may declare.
Offices ==
  {[officeId |-> "o-alpha", namespaceSlug |-> <<"alpha">>, domain |-> ""],
   [officeId |-> "o-beta", namespaceSlug |-> <<"beta">>, domain |-> ""]}

\* Every slug a room of the model can be registered under.
SlugUniverse == {<<"alpha">>, <<"beta">>, <<"beta", "office", "xyz">>}

\* `aborted` is controller.signal.aborted of the withTimeout around the
\* fetch of the offices.
EnsIdle ==
  [pc |-> "idle", remaining |-> {}, valid |-> {}, toRemove |-> {},
   creating |-> {}, aborted |-> FALSE]

\* The options ensureRegistryRooms passes to matchMaker.createRoom.
RegistryRoomOptions(office) ==
  [name |-> office.namespaceSlug, namespaceSlug |-> office.namespaceSlug,
   registryBacked |-> TRUE, autoDispose |-> FALSE,
   password |-> "", passwordHash |-> NoPassword]

\* pruneNamespacesNotIn: the slugs it collects in toRemove.
pruneTargets(w, validNamespaces) ==
  LET normalized == {LowerSlug(v) : v \in validNamespaces} \ {<<>>}
  IN {LowerSlug(slug) : slug \in
        {s \in DOMAIN w.namespaceRooms :
           /\ s # <<>>
           /\ w.roomBacked[w.namespaceRooms[s]]
           /\ LowerSlug(s) \notin normalized
           /\ <<LowerSlug(s)[1]>> \notin normalized}}

\* The `finally` of runRegistryEnsure.
ensFinish(w, c) ==
  [w EXCEPT !.registrySyncInFlight = FALSE,
            !.ens[c] = EnsIdle]

\* The loop of pruneNamespacesNotIn: destroy the next slug of toRemove (the
\* one `pick` names), or return when none is left.
ensPruneNext(w, c, pick) ==
  IF w.ens[c].toRemove = {} THEN ensFinish(w, c)
  ELSE IF pick \notin w.ens[c].toRemove THEN [w EXCEPT !.ens[c].pc = "invalid"]
  ELSE destroyNamespace(
         [w EXCEPT !.ens[c].toRemove = @ \ {pick}, !.ens[c].pc = "prune"],
         c, pick)

pruneNamespacesNotIn(w, c, pick) ==
  ensPruneNext(
    [w EXCEPT !.ens[c].toRemove = pruneTargets(w, w.ens[c].valid)], c, pick)

\* The retries a scheduleRegistryAgentSync makes after its first attempt
\* (`attempt < 8`), and the steps of its delay.
SyncRetryLimit == 8
SyncDelayStep == 500
SyncDelayCap == 3000

\* No agent sync is awaiting: `room` is the roomInstance the callback holds
\* while it awaits the agents of the office.
SyncTask(office, attempt) ==
  [office |-> office, attempt |-> attempt,
   delay |-> IF attempt = 0 THEN 0
             ELSE IF SyncDelayStep * attempt < SyncDelayCap
                  THEN SyncDelayStep * attempt ELSE SyncDelayCap,
   pc |-> "timer", room |-> 0]

\* scheduleRegistryAgentSync(office, attempt), up to its setTimeout.  The
\* timers are kept by office: a timer set for an office takes the place of
\* the task set for that office before.
scheduleRegistryAgentSync(w, office, attempt) ==
  IF office.namespaceSlug = <<>> THEN w
  ELSE [w EXCEPT !.sync = Put(@, office.officeId, SyncTask(office, attempt))]

\* The `for (const office of offices)` loop of ensureRegistryRooms, from the
\* next office to the next await.
RECURSIVE ensLoop(_, _, _)
ensLoop(w, c, pick) ==
  IF w.ens[c].remaining = {} THEN pruneNamespacesNotIn(w, c, pick)
  ELSE LET office == CHOOSE o \in w.ens[c].remaining : TRUE
           normalizedSlug == LowerSlug(office.namespaceSlug)
           w1 == [w EXCEPT !.ens[c].valid = @ \cup {normalizedSlug}]
       IN IF Has(w.namespaceRooms, normalizedSlug)
          THEN ensLoop(scheduleRegistryAgentSync(
                         [w1 EXCEPT !.ens[c].remaining = @ \ {office}],
                         office, 0),
                       c, pick)
          ELSE [w1 EXCEPT !.ens[c].pc = "create", !.ens[c].creating = {office}]

\* A runRegistryEnsure without the gate test.
runRegistryEnsureUngated(w, c) ==
  [w EXCEPT !.registrySyncInFlight = TRUE,
            !.ens[c] = [EnsIdle EXCEPT !.pc = "fetch"]]

\* runRegistryEnsure, up to `await ensureRegistryRooms()` reaching its
\* first await (the fetch of the offices).
runRegistryEnsure(w, c) ==
  IF w.registrySyncInFlight THEN w
  ELSE [w EXCEPT !.registrySyncInFlight = TRUE,
                 !.ens[c] = [EnsIdle EXCEPT !.pc = "fetch"]]

\* ------------------------------------------------------------- actions
\* lastOp after a step that made no call a property looks back at.  Of a
\* POST /api/deploy-character it holds the namespace asked for and the room
\* the directory had for it.  Of an
\* NPC call it holds whether its write to the local store failed, whether
\* it was told to skip the Registry sync, and the Registry PATCH requests
\* it issued.
NoOp ==
  [op |-> "", room |-> 0, slug |-> <<>>, entry |-> 0, agent |-> "",
   workstationId |-> "", computerId |-> "", storeFailed |-> FALSE,
   skipRegistrySync |-> FALSE, patches |-> <<>>,
   attempt |-> 0, delay |-> 0, agents |-> {}, upserted |-> {},
   saved |-> {}]

\* No /api/deploy-character request is awaiting.
NoDeploy ==
  [pc |-> "idle", agentId |-> "", officeId |-> "", slugKey |-> <<>>,
   roomId |-> 0]

\* The options a client connects with; "" and <<>> for what is not given.
NoOptions ==
  [agentId |-> "", managerToken |-> <<>>, namespaceSlug |-> <<>>,
   name |-> <<>>, password |-> ""]

\* client.userData before the handshake attaches anything.
NoUserData ==
  [npcAgentId |-> "", npcKey |-> <<>>, managerTokenPayload |-> NoPayload,
   presenceSecretSource |-> ""]

\* No client is connecting.  Of a handshake: the room, the options, the
\* locals it holds across its awaits (the hash it compares with, the
\* assignment it found, the namespace it expects, the cache key), and for
\* one that has ended the secret it verified with, the status (200, or that
\* of the ServerError), the message, the roomId a 410 carries and the
\* userData of the client.
NoAuth ==
  [pc |-> "idle", room |-> 0, options |-> NoOptions, hash |-> NoPassword,
   assignment |-> [officeId |-> "", namespaceSlug |-> <<>>],
   expectedNamespace |-> <<>>, cacheKey |-> <<>>, secret |-> "",
   source |-> "", cached |-> FALSE,
   status |-> 0, message |-> "", redirect |-> 0, userData |-> NoUserData]

\* tickStart outside a reconciler run and outside a DELETE
\* /api/rooms/:namespaceSlug that are being looked at.  Of the DELETE
\* requests it holds how many calls of destroyNamespace(slug) have followed
\* one another with no other request since the first began (calls), whether
\* the latest has returned (ended) or rejected, the sub-step that fails in
\* the latest (fault), whether no sub-step of the first failed and every
\* matchMaker.query of it returned the listings (answered), what the first
\* returned as
\* removedRooms (removed1), the directory, rooms and stores when the latest
\* began (before) and what the latest has in removedRooms and removedAgents.
NoTick ==
  [on |-> FALSE, done |-> FALSE, alpha |-> 0, beta |-> 0,
   alphaNpcs |-> EmptyMap, alphaRows |-> EmptyMap, betaAgents |-> {},
   calls |-> 0, slug |-> <<>>, fault |-> "none", ended |-> FALSE,
   rejected |-> FALSE, answered |-> FALSE,
   removed1 |-> <<>>, before |-> <<>>, removedRooms |-> <<>>,
   removedAgents |-> {}, failed |-> FALSE]

\* The rows of the npcs table that belong to the namespace slug.
NpcRowsOf(store, slug) ==
  LET mine == {a \in DOMAIN store : LowerSlug(store[a].namespaceSlug) = slug}
  IN [a \in mine |-> store[a]]

\* tickStart when a run has fetched `offices`: the run is looked at when the
\* Registry reports only alpha while the directory holds live
\* registry-backed rooms alpha and beta.
TickFetched(offices) ==
  LET A == <<"alpha">>
      B == <<"beta">>
  IN IF /\ {o.namespaceSlug : o \in offices} = {A}
        /\ Has(namespaceRooms, A) /\ Has(namespaceRooms, B)
        /\ roomBacked[namespaceRooms[A]] /\ roomBacked[namespaceRooms[B]]
        /\ roomState[namespaceRooms[A]] = "live"
        /\ roomState[namespaceRooms[B]] = "live"
     THEN [NoTick EXCEPT
             !.on = TRUE,
             !.alpha = namespaceRooms[A], !.beta = namespaceRooms[B],
             !.alphaNpcs = npcAssignments[namespaceRooms[A]],
             !.alphaRows = NpcRowsOf(npcStore, A),
             !.betaAgents = DOMAIN npcAssignments[namespaceRooms[B]]]
     ELSE NoTick

\* The directory, the rooms and the persisted state of world w.
RoomsAndStores(w) ==
  [f \in {"roomState", "activeRooms", "namespaceRooms", "listings",
          "roomRows", "players", "computers", "npcAssignments", "presence",
          "npcStore"} |-> w[f]]

\* tickStart when the fetch of the offices of a run has failed: the run is
\* looked at, with the directory, the rooms and the stores it began with.
TickFetchFailed ==
  [NoTick EXCEPT !.failed = TRUE, !.before = RoomsAndStores(World)]

\* tickStart after a step of caller c that ends in world w.
TickStepped(start, w, c) ==
  IF ~start.on /\ ~start.failed THEN NoTick
  ELSE IF w.ens[c].pc = "idle" THEN [start EXCEPT !.done = TRUE]
  ELSE start

\* tickStart when DELETE /api/rooms/:slug begins in world w, in a call in
\* which the sub-step `fault` fails.
ApiStarted(start, w, slug, fault) ==
  IF start.calls = 1 /\ start.ended /\ start.slug = slug
  THEN [start EXCEPT !.calls = 2, !.ended = FALSE, !.fault = fault,
                     !.removed1 = start.removedRooms,
                     !.before = RoomsAndStores(w),
                     !.removedRooms = <<>>, !.removedAgents = {}]
  ELSE [NoTick EXCEPT !.calls = 1, !.slug = slug, !.fault = fault,
                      !.before = RoomsAndStores(w),
                      !.answered = (fault = "none")]

\* tickStart after a step of the DELETE request that ends in world w, its
\* query, if the step had one, having returned the listings or not.
ApiStepped(start, w, answered) ==
  IF start.calls = 0 THEN NoTick
  ELSE [start EXCEPT !.ended = (w.dn["api"].pc = "done"),
                     !.rejected = (w.dn["api"].pc = "rejected"),
                     !.answered = IF start.calls = 1 THEN @ /\ answered ELSE @,
                     !.removedRooms = w.dn["api"].removedRooms,
                     !.removedAgents = w.dn["api"].removedAgents]

\* The roomId the matchmaker gives the next room.
FreshRoom(r) ==
  /\ roomState[r] = "none"
  /\ \A q \in RoomIds : roomState[q] = "none" => r <= q

Valid(w) == \A c \in Callers : w.ens[c].pc # "invalid"

\* setInterval(() => runRegistryEnsure(), REGISTRY_SYNC_INTERVAL_MS)
Tick ==
  /\ ens["tick"].pc = "idle"
  /\ SetWorld(runRegistryEnsure(World, "tick"))
  /\ lastOp' = [NoOp EXCEPT !.op = IF registrySyncInFlight
                                   THEN "runRegistryEnsure:overlap"
                                   ELSE "runRegistryEnsure"]
  /\ tickStart' = IF registrySyncInFlight /\ (tickStart.on \/ tickStart.failed)
                  THEN tickStart ELSE NoTick

\* fetchRegistryOffices() answers with the offices the Registry declares
\* at that moment.
EnsFetchedOf(c, declared) ==
  /\ ens[c].pc = "fetch"
  /\ \E offices \in declared, pick \in SlugUniverse :
       LET w1 == ensLoop([World EXCEPT !.ens[c].pc = "loop",
                                       !.ens[c].aborted = FALSE,
                                       !.ens[c].remaining = offices],
                         c, pick)
       IN /\ Valid(w1) /\ SetWorld(w1) /\ lastOp' = NoOp
          /\ tickStart' = TickStepped(TickFetched(offices), w1, c)

EnsFetched(c) == EnsFetchedOf(c, SUBSET Offices)

\* fetchRegistryOffices() fails (non-2xx, timeout, network) and answers [].
EnsFetchFailed(c) ==
  /\ ens[c].pc = "fetch"
  /\ \E pick \in SlugUniverse :
       LET w1 == ensLoop([World EXCEPT !.ens[c].pc = "loop",
                                       !.ens[c].aborted = FALSE], c, pick)
       IN /\ Valid(w1) /\ SetWorld(w1) /\ lastOp' = NoOp
          /\ tickStart' = TickStepped(TickFetchFailed, w1, c)

\* withTimeout: the timer of the pending fetch of the offices fires and
\* calls controller.abort().  The signal of the controller was not given to
\* fetch, so the request goes on.
withTimeoutFired(w, c) == [w EXCEPT !.ens[c].aborted = TRUE]

RegistryTimeout(c) ==
  /\ ens[c].pc = "fetch"
  /\ ~ens[c].aborted
  /\ SetWorld(withTimeoutFired(World, c))
  /\ lastOp' = NoOp
  /\ tickStart' = tickStart

\* matchMaker.createRoom resolves: the room exists and its onCreate ran.
EnsCreated(c) ==
  /\ ens[c].pc = "create"
  /\ \E r \in RoomIds, pick \in SlugUniverse :
       /\ FreshRoom(r)
       /\ LET office == CHOOSE o \in ens[c].creating : TRUE
              w1 == onCreate(World, r, RegistryRoomOptions(office))
              w2 == ensLoop(scheduleRegistryAgentSync(
                              [w1 EXCEPT !.ens[c].pc = "loop",
                                         !.ens[c].creating = {},
                                         !.ens[c].remaining = @ \ {office}],
                              office, 0),
                            c, pick)
          IN /\ Valid(w2) /\ SetWorld(w2) /\ lastOp' = NoOp
             /\ tickStart' = TickStepped(tickStart, w2, c)

\* matchMaker.createRoom rejects; the catch logs and the loop goes on.
EnsCreateFailed(c) ==
  /\ ens[c].pc = "create"
  /\ \E pick \in SlugUniverse :
       LET office == CHOOSE o \in ens[c].creating : TRUE
           w1 == ensLoop(scheduleRegistryAgentSync(
                           [World EXCEPT !.ens[c].pc = "loop",
                                         !.ens[c].creating = {},
                                         !.ens[c].remaining = @ \ {office}],
                           office, 0),
                         c, pick)
       IN /\ Valid(w1) /\ SetWorld(w1) /\ lastOp' = NoOp
          /\ tickStart' = TickStepped(tickStart, w1, c)

\* The names under which clients create rooms.
ClientRoomNames == {<<"beta">>, <<"beta", "office", "xyz">>}

\* A client creates a public or custom room through the matchmaker.
ClientCreateOf(names, autoDisposes, passwords) ==
  \E r \in RoomIds, name \in names, auto \in autoDisposes,
     password \in passwords :
    /\ FreshRoom(r)
    /\ SetWorld(onCreate(World, r,
         [name |-> name, namespaceSlug |-> <<>>, registryBacked |-> FALSE,
          autoDispose |-> auto, password |-> password,
          passwordHash |-> NoPassword]))
    /\ lastOp' = [NoOp EXCEPT !.op = "onCreate", !.room = r]
    /\ tickStart' = NoTick

ClientCreate == ClientCreateOf(ClientRoomNames, BOOLEAN, {""})

\* The object of a disposed room is unreachable unless an agent sync holds
\* it as its roomInstance: otherwise nothing reads its fields again, and
\* they are dropped from the state.
Forget(w, r) ==
  IF \E o \in DOMAIN w.sync : w.sync[o].room = r THEN w ELSE
  [w EXCEPT !.roomName[r] = <<>>, !.roomSlug[r] = <<>>,
            !.roomBacked[r] = FALSE, !.roomAutoDispose[r] = FALSE,
            !.roomPassword[r] = NoPassword, !.players[r] = EmptyMap,
            !.computers[r] = EmptyMap, !.whiteboards[r] = EmptyMap,
            !.npcAssignments[r] = EmptyMap,
            !.presence[r] = [clientsOnlineCount |-> 0, npcOnlineCount |-> 0,
                             totalOnlineCount |-> 0]]

\* The transport disposes a room: after disconnect(), or when the room has
\* autoDispose set and no client.
\* The dispose that a run of destroyNamespace awaits is part of that run.
Dispose ==
  \E r \in RoomIds :
    /\ \/ roomState[r] = "closing"
       \/ roomState[r] = "live" /\ roomAutoDispose[r] /\ clients[r] = {}
    /\ SetWorld(Forget(onDispose(World, r), r))
    /\ lastOp' = [NoOp EXCEPT !.op = "onDispose", !.room = r,
                              !.slug = roomSlug[r],
                              !.entry = IF Has(namespaceRooms, roomSlug[r])
                                        THEN namespaceRooms[roomSlug[r]] ELSE 0]
    /\ tickStart' = IF \E t \in Tasks : /\ dn[t].pc = "disconnect"
                                         /\ dn[t].room = r
                    THEN tickStart ELSE NoTick

\* DELETE /api/rooms/:namespaceSlug, in a call of destroyNamespace in which
\* the sub-step `fault` fails.  When destroyNamespace returns or rejects the
\* endpoint has its answer (200, or 500 from its catch) and the locals of
\* the run are gone.
ApiDestroyNamespaceOf(slugs, faults) ==
  \E slug \in slugs, fault \in faults :
    /\ dn["api"].pc = "idle"
    /\ LET w1 == destroyNamespace([World EXCEPT !.dn["api"].fault = fault],
                                  "api", slug)
       IN /\ SetWorld(IF w1.dn["api"].pc \in {"done", "rejected"}
                      THEN [w1 EXCEPT !.dn["api"] = DnIdle] ELSE w1)
          /\ tickStart' =
               ApiStepped(ApiStarted(tickStart, World, LowerSlug(slug), fault),
                          w1, TRUE)
    /\ lastOp' = NoOp

\* `await activeRoom.disconnect()` resolves: the room has disposed; or it
\* rejects.
DnDisconnected(t) ==
  /\ dn[t].pc = "disconnect"
  /\ roomState[dn[t].room] = "disposed" \/ dn[t].fault = "disconnect"
  /\ SetWorld(dnDisconnected(World, t))
  /\ lastOp' = NoOp
  /\ tickStart' = IF t \in Callers
                  THEN IF tickStart.on \/ tickStart.failed THEN tickStart
                       ELSE NoTick
                  ELSE ApiStepped(tickStart, dnDisconnected(World, t), TRUE)

\* `await matchMaker.query({ name: slug })` resolves: with no listing, or
\* with the listings the matchmaker holds (removeListings filters them).
\* The caller then has the result and the locals of the run are gone.
DnQueried(t) ==
  /\ dn[t].pc = "query"
  /\ \E found \in {{}, listings}, pick \in SlugUniverse :
       LET w1 == dnQueried(World, t, found)
           w2 == IF w1.dn[t].pc \notin {"done", "rejected"} THEN w1
                 ELSE IF t \in Callers
                 THEN ensPruneNext([w1 EXCEPT !.dn[t] = DnIdle], t, pick)
                 ELSE [w1 EXCEPT !.dn[t] = DnIdle]
       IN /\ Valid(w2) /\ SetWorld(w2) /\ lastOp' = NoOp
          /\ tickStart' = IF t \in Callers THEN TickStepped(tickStart, w2, t)
                          ELSE ApiStepped(tickStart, w1, found = listings)

\* ------------------------------------------------------------ WalkableMap
\* The grids looked at have GridWidth columns and GridHeight rows.
GridWidth == 3
GridHeight == 2

\* tileWidth and tileHeight of the map: square tiles of an even size.
TileSize == 32

\* A tile {x, y} is the pair <<x, y>>, a point {x, y} too; grid[y][x] is 1
\* where the tile blocks and 0 where it is walkable.
Tiles == (0 .. GridWidth - 1) \X (0 .. GridHeight - 1)
Grids == [0 .. GridHeight - 1 -> [0 .. GridWidth - 1 -> {0, 1}]]

\* findPath returned null.
NoPath == <<>>

Abs(n) == IF n < 0 THEN -n ELSE n
Min(a, b) == IF a < b THEN a ELSE b
Max(a, b) == IF a > b THEN a ELSE b

\* Math.floor(p / size) for a positive size.
FloorDiv(p, size) == p \div size

\* WalkableMap.toTile
toTile(point) ==
  <<Max(0, Min(GridWidth - 1, FloorDiv(point[1], TileSize))),
    Max(0, Min(GridHeight - 1, FloorDiv(point[2], TileSize)))>>

\* WalkableMap.toPixel
toPixel(tile) ==
  <<tile[1] * TileSize + TileSize \div 2, tile[2] * TileSize + TileSize \div 2>>

\* WalkableMap.isWalkable
isWalkable(grid, tile) ==
  IF tile[1] < 0 \/ tile[2] < 0 \/ tile[1] >= GridWidth \/ tile[2] >= GridHeight
  THEN FALSE
  ELSE grid[tile[2]][tile[1]] = 0

\* The heuristic of findPath: the Manhattan distance to the target tile.
heuristic(tile, targetTile) ==
  Abs(tile[1] - targetTile[1]) + Abs(tile[2] - targetTile[2])

\* The directions with a diagonal step among them.
directionsWithDiagonal ==
  << <<1, 0>>, <<-1, 0>>, <<0, 1>>, <<0, -1>>, <<1, 1>> >>

\* The directions of findPath, in the order the neighbours are visited.
directions == << <<1, 0>>, <<-1, 0>>, <<0, 1>>, <<0, -1>> >>

\* The search starts with the start tile alone in the open set.  openSet is
\* the sequence of its keys in insertion order and f their scores.
searchStart(startTile, targetTile) ==
  [openSet |-> <<startTile>>,
   f |-> Put(EmptyMap, startTile, heuristic(startTile, targetTile)),
   gScore |-> Put(EmptyMap, startTile, 0),
   cameFrom |-> Put(EmptyMap, startTile, <<>>),
   closedSet |-> {}]

\* The openSet.forEach that selects the current node: the first entry, in
\* insertion order, whose f is strictly below that of every entry before it
\* and not above that of any entry after it.
currentKey(s) ==
  LET i == CHOOSE i \in 1 .. Len(s.openSet) :
             /\ \A j \in 1 .. Len(s.openSet) : s.f[s.openSet[i]] <= s.f[s.openSet[j]]
             /\ \A j \in 1 .. i - 1 : s.f[s.openSet[j]] > s.f[s.openSet[i]]
  IN s.openSet[i]

\* The body of directions.forEach for one direction.
visitNeighbor(grid, s, current, targetTile, dir) ==
  LET neighbor == <<current[1] + dir[1], current[2] + dir[2]>>
      tentativeG == s.gScore[current] + 1
  IN IF neighbor \in s.closedSet THEN s
     ELSE IF ~isWalkable(grid, neighbor) THEN s
     ELSE IF Has(s.gScore, neighbor) /\ tentativeG >= s.gScore[neighbor] THEN s
     ELSE [s EXCEPT
             !.cameFrom = Put(s.cameFrom, neighbor, current),
             !.gScore = Put(s.gScore, neighbor, tentativeG),
             !.f = Put(s.f, neighbor, tentativeG + heuristic(neighbor, targetTile)),
             !.openSet = IF \E i \in 1 .. Len(s.openSet) : s.openSet[i] = neighbor
                         THEN s.openSet
                         ELSE Append(s.openSet, neighbor)]

RECURSIVE visitNeighbors(_, _, _, _, _)
visitNeighbors(grid, s, current, targetTile, dirs) ==
  IF dirs = <<>> THEN s
  ELSE visitNeighbors(grid, visitNeighbor(grid, s, current, targetTile, Head(dirs)),
                      current, targetTile, Tail(dirs))

\* The walk back along cameFrom from a key to the start tile, reversed: the
\* tiles from the start tile to the key.
RECURSIVE pathTiles(_, _)
pathTiles(cameFrom, key) ==
  IF key = <<>> THEN <<>>
  ELSE Append(pathTiles(cameFrom, cameFrom[key]), key)

\* The while loop of findPath: the tiles of the path, or NoPath.
RECURSIVE searchLoop(_, _, _)
searchLoop(grid, targetTile, s) ==
  IF Len(s.openSet) = 0 THEN NoPath
  ELSE LET current == currentKey(s)
       IN IF current = targetTile THEN pathTiles(s.cameFrom, current)
          ELSE searchLoop(grid, targetTile,
                 visitNeighbors(grid,
                   [s EXCEPT !.openSet = SelectSeq(s.openSet, LAMBDA k : k # current),
                             !.closedSet = s.closedSet \cup {current}],
                   current, targetTile, directions))

\* WalkableMap.findPath: the waypoints, or NoPath for null.
findPath(grid, start, target) ==
  LET startTile == toTile(start)
      targetTile == toTile(target)
  IN IF startTile = targetTile THEN <<toPixel(targetTile)>>
     ELSE LET tiles == searchLoop(grid, targetTile, searchStart(startTile, targetTile))
          IN [i \in 1 .. Len(tiles) |-> toPixel(tiles[i])]

\* No findPath call is looked at.
PfNone ==
  [pc |-> "none", grid |-> [y \in 0 .. GridHeight - 1 |-> [x \in 0 .. GridWidth - 1 |-> 0]],
   start |-> <<0, 0>>, target |-> <<0, 0>>, result |-> NoPath, status |-> 0]

\* app.post('/api/pathfind'): 400 unless both points are numeric, 404 when
\* findWalkablePath returns null or an empty path, the path otherwise.
apiPathfind(p, startIsValid, targetIsValid) ==
  IF ~startIsValid \/ ~targetIsValid
  THEN [p EXCEPT !.pc = "responded", !.status = 400]
  ELSE LET path == findPath(p.grid, p.start, p.target)
       IN IF path = NoPath \/ Len(path) = 0
          THEN [p EXCEPT !.pc = "responded", !.status = 404]
          ELSE [p EXCEPT !.pc = "responded", !.status = 200, !.result = path]

\* ------------------------------------------------------- initial state
\* The process has started: no room exists, bootstrapRegistrySync has
\* truncated both tables and its runRegistryEnsure awaits the offices.
InitServer ==
  /\ roomState = [r \in RoomIds |-> "none"]
  /\ roomName = [r \in RoomIds |-> <<>>]
  /\ roomSlug = [r \in RoomIds |-> <<>>]
  /\ roomBacked = [r \in RoomIds |-> FALSE]
  /\ roomAutoDispose = [r \in RoomIds |-> FALSE]
  /\ roomPassword = [r \in RoomIds |-> NoPassword]
  /\ activeRooms = {}
  /\ namespaceRooms = EmptyMap
  /\ listings = {}
  /\ roomRows = {}
  /\ players = [r \in RoomIds |-> EmptyMap]
  /\ computers = [r \in RoomIds |-> EmptyMap]
  /\ whiteboards = [r \in RoomIds |-> EmptyMap]
  /\ npcAssignments = [r \in RoomIds |-> EmptyMap]
  /\ presence = [r \in RoomIds |->
       [clientsOnlineCount |-> 0, npcOnlineCount |-> 0, totalOnlineCount |-> 0]]
  /\ clients = [r \in RoomIds |-> {}]
  /\ npcStore = EmptyMap
  /\ registrySyncInFlight = TRUE
  /\ ens = [c \in Callers |->
       IF c = "boot" THEN [EnsIdle EXCEPT !.pc = "fetch"] ELSE EnsIdle]
  /\ dn = [t \in Tasks |-> DnIdle]
  /\ deploy = NoDeploy
  /\ sync = EmptyMap
  /\ secretCache = EmptyMap
  /\ auth = NoAuth
  /\ lastOp = NoOp
  /\ tickStart = NoTick

\* No verifyManagerToken call is looked at.
VtNone ==
  [pc |-> "none", signSecret |-> "", payload |-> NoPayload, token |-> <<>>,
   secret |-> "", result |-> TokenError("")]

\* No presence secret and no office id are configured.
NoEnv ==
  [staticSecret |-> "", officeId |-> "", preloaded |-> EmptyMap,
   tenantSecret |-> "", registrySecret |-> "", agents |-> {}]

Init == InitServer /\ vt = VtNone /\ pf = PfNone /\ env = NoEnv

vars ==
  <<roomState, roomName, roomSlug, roomBacked, roomAutoDispose, roomPassword,
    activeRooms, namespaceRooms, listings, roomRows, players, computers,
    whiteboards, npcAssignments, presence, clients, npcStore, registrySyncInFlight,
    ens, dn, deploy, sync, vt, pf, env, secretCache, auth, lastOp, tickStart>>

\* The room directory and the reconciler.
NextDir ==
  \/ Tick
  \/ \E c \in Callers : EnsFetched(c)
  \/ \E c \in Callers : EnsFetchFailed(c)
  \/ \E c \in Callers : EnsCreated(c)
  \/ \E c \in Callers : EnsCreateFailed(c)
  \/ ClientCreate
  \/ Dispose
  \/ \E t \in Tasks : DnDisconnected(t)
  \/ \E t \in Tasks : DnQueried(t)

SpecDir == Init /\ [][NextDir]_vars

\* ------------------------------------------------------ the NPC engine
\* The options of gameServer.define(RoomType.PUBLIC, SkyOffice, ...).
PublicRoomOptions ==
  [name |-> <<"Public Lobby">>, namespaceSlug |-> <<>>,
   registryBacked |-> FALSE, autoDispose |-> FALSE,
   password |-> "", passwordHash |-> NoPassword]

\* The deployment payloads upsertNpc is called with: seated by workstation,
\* seated by workstation with an unknown avatar and a role to normalise,
\* a workstation outside the table, an explicit computer that overrides the
\* table, an explicit computer that does not exist, and a computer without
\* a workstation, and a workstation of the table with an explicit computer
\* that does not exist.
NpcPayloads(agentId) ==
  LET base == [agentId |-> agentId, name |-> "npc", avatarId |-> "adam",
               workstationId |-> "design-studio", position |-> <<10, 20>>,
               officeId |-> "", registryAgentId |-> "",
               namespaceSlug |-> <<>>, role |-> "", computerId |-> ""]
  IN {base,
      [base EXCEPT !.workstationId = "dev-desk", !.avatarId = "zed",
                   !.role = "office secretary", !.position = <<30, 40>>],
      [base EXCEPT !.workstationId = "lounge"],
      [base EXCEPT !.computerId = "3"],
      [base EXCEPT !.workstationId = "lounge", !.computerId = "9"],
      [base EXCEPT !.workstationId = "", !.computerId = "2"],
      [base EXCEPT !.computerId = "9"]}

\* The agents that get deployed.
DeployedAgents == {"a1", "a2"}

\* The first joinOrCreate of the public room creates it.
OpenPublicRoom ==
  /\ \A r \in RoomIds : roomState[r] = "none"
  /\ SetWorld(onCreate(World, 1, PublicRoomOptions))
  /\ lastOp' = [NoOp EXCEPT !.op = "onCreate", !.room = 1]
  /\ tickStart' = NoTick

\* room.upsertNpc(payload, options), with a local store whose write fails
\* or not.
UpsertNpcWith(payloads, skipSyncs, storeFails) ==
  \E r \in activeRooms, payload \in payloads, skip \in BOOLEAN,
     skipSync \in skipSyncs, fails \in storeFails :
    LET options == [skipPersistence |-> skip, skipRegistrySync |-> skipSync]
        threw == fails /\ ~skip
    IN /\ roomState[r] = "live"
       /\ SetWorld(IF threw THEN upsertNpcThrown(World, r, payload)
                   ELSE upsertNpc(World, r, payload, options))
       /\ lastOp' = [NoOp EXCEPT
            !.op = IF threw THEN "upsertNpc:threw" ELSE "upsertNpc",
            !.room = r, !.agent = payload.agentId,
            !.workstationId = payload.workstationId,
            !.computerId = payload.computerId,
            !.storeFailed = threw,
            !.skipRegistrySync = skipSync,
            !.patches = IF threw THEN <<>>
                        ELSE upsertNpcRegistrySync(World, r, payload, options)]
       /\ tickStart' = NoTick

UpsertNpcOf(agentIds) ==
  UpsertNpcWith(UNION {NpcPayloads(a) : a \in agentIds}, {FALSE}, {FALSE})

UpsertNpc == UpsertNpcOf(DeployedAgents)

\* room.removeNpc(agentId)
RemoveNpcOf(agentIds) ==
  \E r \in activeRooms, agentId \in agentIds :
    /\ roomState[r] = "live"
    /\ SetWorld(removeNpc(World, r, agentId).world)
    /\ lastOp' = [NoOp EXCEPT !.op = "removeNpc", !.room = r,
                              !.agent = agentId,
                              !.entry = IF Has(npcAssignments[r], agentId)
                                        THEN 1 ELSE 0,
                              !.patches =
                                removeNpcRegistrySync(World, r, agentId)]
    /\ tickStart' = NoTick

RemoveNpc == RemoveNpcOf(DeployedAgents)

NextNpc == OpenPublicRoom \/ UpsertNpc \/ RemoveNpc

SpecNpc == Init /\ [][NextNpc]_vars

\* C1: in every room and for every agent id K, a Player is stored under
\* the key "npc-" + K exactly when npcAssignments holds K, whatever
\* upsertNpc and removeNpc calls were made.
C1_NpcPlayerIffAssignment ==
  \A r \in RoomIds : \A agentId \in AgentIds :
    Has(players[r], getNpcKey(agentId)) <=> Has(npcAssignments[r], agentId)

\* An NPC that was deployed has just been removed while another one stays.
C1_Witness ==
  /\ lastOp.op = "removeNpc"
  /\ lastOp.entry = 1
  /\ ~Has(npcAssignments[lastOp.room], lastOp.agent)
  /\ ~Has(players[lastOp.room], getNpcKey(lastOp.agent))
  /\ \E other \in AgentIds :
       /\ Has(npcAssignments[lastOp.room], other)
       /\ Has(players[lastOp.room], getNpcKey(other))

\* The computers of room r whose connectedUser holds the session key.
ComputersOf(r, key) == {c \in DOMAIN computers[r] : key \in computers[r][c]}

\* C11, as stated: when upsertNpc has returned for a payload whose
\* workstationId resolves to a computer of the room, the key of the NPC is
\* in connectedUser of exactly one computer, the one with the computerId
\* the call derived (the computerId of the payload, else the one of the
\* workstation).
C11_UpsertSeatsAtTheDerivedComputer ==
  (/\ lastOp.op = "upsertNpc"
   /\ resolveComputerIdFromWorkstation(lastOp.workstationId)
        \in DOMAIN computers[lastOp.room])
  => ComputersOf(lastOp.room, getNpcKey(lastOp.agent)) =
       {IF lastOp.computerId # "" THEN lastOp.computerId
        ELSE resolveComputerIdFromWorkstation(lastOp.workstationId)}

\* upsertNpc has returned for such a payload and the NPC, seated before
\* the call, is at no computer.
C11_Witness ==
  /\ lastOp.op = "upsertNpc"
  /\ resolveComputerIdFromWorkstation(lastOp.workstationId)
       \in DOMAIN computers[lastOp.room]
  /\ lastOp.computerId = "9"
  /\ Has(npcAssignments[lastOp.room], lastOp.agent)
  /\ ComputersOf(lastOp.room, getNpcKey(lastOp.agent)) = {}

\* ---------------------------------------------------- the directory
\* Created and not yet disposed.
NotDisposed(r) == roomState[r] \in {"live", "closing"}

\* C2, as stated: namespaceRooms[slug] is defined exactly when a live
\* registry-backed room with that slug exists, it points to that room, and
\* at most one live room has the slug.
C2_DirectoryIsTheRegistryRooms ==
  \A slug \in SlugUniverse :
    LET rooms == {r \in RoomIds : NotDisposed(r) /\ roomSlug[r] = slug}
        backed == {r \in rooms : roomBacked[r]}
    IN /\ Has(namespaceRooms, slug) <=> backed # {}
       /\ Has(namespaceRooms, slug) => namespaceRooms[slug] \in backed
       /\ Cardinality(rooms) <= 1

\* C2, amended: whenever namespaceRooms[slug] is defined it points to a
\* room that was created and is not yet disposed and whose namespace is
\* slug, registry-backed or not.
C2_DirectoryPointsToLiveRoom ==
  \A slug \in DOMAIN namespaceRooms :
    /\ NotDisposed(namespaceRooms[slug])
    /\ roomSlug[namespaceRooms[slug]] = slug

\* The entry of a slug points to a room without registry metadata while a
\* registry-backed room of the same slug is live beside it.
C2_Witness ==
  \E slug \in DOMAIN namespaceRooms :
    /\ ~roomBacked[namespaceRooms[slug]]
    /\ roomState[namespaceRooms[slug]] = "live"
    /\ \E r \in RoomIds :
         /\ r # namespaceRooms[slug]
         /\ roomState[r] = "live" /\ roomBacked[r] /\ roomSlug[r] = slug

\* C3: a dispose of room r leaves the entry of r's slug as it is when the
\* entry points to another room, and removes it when it points to r.
C3_DisposeComparesBeforeDelete ==
  [][\A r \in RoomIds :
       (NotDisposed(r) /\ roomState'[r] = "disposed") =>
         LET slug == roomSlug[r]
         IN IF Has(namespaceRooms, slug) /\ namespaceRooms[slug] # r
            THEN /\ Has(namespaceRooms', slug)
                 /\ namespaceRooms'[slug] = namespaceRooms[slug]
            ELSE ~Has(namespaceRooms', slug)]_vars

\* A room has just disposed while the entry of its slug pointed to a
\* replacement, and the entry still points to the replacement.
C3_Witness ==
  /\ lastOp.op = "onDispose"
  /\ lastOp.entry # 0
  /\ lastOp.entry # lastOp.room
  /\ Has(namespaceRooms, lastOp.slug)
  /\ namespaceRooms[lastOp.slug] = lastOp.entry
  /\ roomState[lastOp.room] = "disposed"

\* C4: at most one caller is inside ensureRegistryRooms, the gate is set
\* while one is, and a runRegistryEnsure that found the gate set returned
\* without entering it.
C4_OneEnsureInFlight ==
  /\ Cardinality({c \in Callers : ens[c].pc # "idle"}) <= 1
  /\ (\E c \in Callers : ens[c].pc # "idle") => registrySyncInFlight
  /\ lastOp.op = "runRegistryEnsure:overlap" => ens["tick"].pc = "idle"

\* A tick has just fired while the bootstrap run was awaiting, and returned.
C4_Witness ==
  /\ lastOp.op = "runRegistryEnsure:overlap"
  /\ ens["boot"].pc # "idle"
  /\ ens["tick"].pc = "idle"
  /\ registrySyncInFlight

\* C6, as stated: after a step of the reconciler every room without
\* registry metadata that was live is still live and still in the directory
\* of active rooms.
C6_HumanRoomsSurviveReconciler ==
  [][\A r \in RoomIds :
       (roomState[r] = "live" /\ ~roomBacked[r] /\ (ens' # ens \/ dn' # dn)) =>
         roomState'[r] = "live" /\ r \in activeRooms']_vars

\* The reconciler has disconnected a room that has no registry metadata.
C6_Witness ==
  \E r \in RoomIds, c \in Callers :
    /\ roomState[r] = "closing"
    /\ ~roomBacked[r]
    /\ dn[c].pc = "disconnect"
    /\ dn[c].room = r

\* ------------------------------------------------ /api/deploy-character
\* getRoomByNamespaceSlug, 0 for undefined.
getRoomByNamespaceSlug(w, slug) ==
  IF Has(w.namespaceRooms, LowerSlug(slug))
  THEN w.namespaceRooms[LowerSlug(slug)] ELSE 0

\* getRoomById, 0 for undefined.
getRoomById(w, roomId) == IF roomId \in w.activeRooms THEN roomId ELSE 0

\* getAnyActiveRoom: the first room of activeRooms in insertion order,
\* which is the order of the roomIds.
getAnyActiveRoom(w) ==
  IF w.activeRooms = {} THEN 0
  ELSE CHOOSE r \in w.activeRooms : \A q \in w.activeRooms : r <= q

\* The payload the endpoint hands to upsertNpc.
DeployPayload(agentId, officeId, slugKey) ==
  [agentId |-> agentId, name |-> "npc", avatarId |-> "adam",
   workstationId |-> "design-studio", position |-> <<705, 500>>,
   officeId |-> officeId, registryAgentId |-> "", namespaceSlug |-> slugKey,
   role |-> "", computerId |-> ""]

\* The endpoint from the choice of the target room on; target is the room
\* found by namespace, or 0.
deployTo(w, target, agentId, officeId, slugKey, roomId) ==
  LET byId == getRoomById(w, roomId)
      targetRoom == IF target # 0 THEN target
                    ELSE IF roomId # 0 /\ byId # 0 THEN byId
                    ELSE getAnyActiveRoom(w)
      w1 == [w EXCEPT !.deploy = NoDeploy]
  IN IF targetRoom = 0 THEN w1
     ELSE upsertNpc(w1, targetRoom, DeployPayload(agentId, officeId, slugKey),
                    [skipPersistence |-> FALSE, skipRegistrySync |-> FALSE])

\* A POST /api/deploy-character that does not look the namespace up in the
\* directory.
deployCharacterWithoutDirectory(w, agentId, officeId, namespaceSlug, roomId) ==
  deployTo(w, 0, agentId, officeId, LowerSlug(namespaceSlug), roomId)

\* POST /api/deploy-character, up to its await or its response.
deployCharacter(w, agentId, officeId, namespaceSlug, roomId) ==
  LET slugKey == LowerSlug(namespaceSlug)
      targetRoom == IF slugKey # <<>> THEN getRoomByNamespaceSlug(w, slugKey)
                    ELSE 0
  IN IF targetRoom = 0 /\ slugKey # <<>>
     THEN [w EXCEPT !.deploy = [pc |-> "query", agentId |-> agentId,
                                officeId |-> officeId, slugKey |-> slugKey,
                                roomId |-> roomId]]
     ELSE deployTo(w, targetRoom, agentId, officeId, slugKey, roomId)

\* POST /api/deploy-character with a body drawn from the given values.
DeployCharacterOf(agentIds, officeIds, namespaceSlugs, roomIds) ==
  \E agentId \in agentIds, officeId \in officeIds,
     namespaceSlug \in namespaceSlugs,
     roomId \in {0} \cup (roomIds \cap activeRooms) :
    /\ deploy.pc = "idle"
    /\ SetWorld(deployCharacter(World, agentId, officeId, namespaceSlug,
                                roomId))
    /\ lastOp' = [NoOp EXCEPT
         !.op = "deploy", !.agent = agentId,
         !.slug = LowerSlug(namespaceSlug),
         !.room = getRoomByNamespaceSlug(World, LowerSlug(namespaceSlug))]
    /\ tickStart' = NoTick

\* `await matchMaker.query({ name: slugKey })` of the endpoint resolves with
\* no listing, or with a listing first.
DeployQueried ==
  /\ deploy.pc = "query"
  /\ \E first \in {0} \cup listings :
       SetWorld(deployTo(World, getRoomById(World, first), deploy.agentId,
                         deploy.officeId, deploy.slugKey, deploy.roomId))
  /\ lastOp' = [NoOp EXCEPT !.op = "deploy", !.agent = deploy.agentId]
  /\ tickStart' = NoTick

\* The reconciler with NPCs deployed into its rooms by namespace.
NextRecon ==
  \/ Tick
  \/ \E c \in Callers : EnsFetched(c)
  \/ \E c \in Callers : EnsFetchFailed(c)
  \/ \E c \in Callers : EnsCreated(c)
  \/ \E c \in Callers : EnsCreateFailed(c)
  \/ Dispose
  \/ \E t \in Tasks : DnDisconnected(t)
  \/ \E t \in Tasks : DnQueried(t)
  \/ DeployCharacterOf(DeployedAgents, {""}, {<<"alpha">>, <<"beta">>}, {})
  \/ DeployQueried

SpecRecon == Init /\ [][NextRecon]_vars

\* C5, as stated: when a reconciler run that fetched only office alpha,
\* with live registry-backed rooms alpha and beta in the directory, has
\* completed with no other request in between, room beta is disposed and
\* out of the directory, holds no NPC assignment, its room row and the NPC
\* rows of its namespace are deleted, and room alpha, its assignments, its
\* room row and its NPC rows are as they were.
C5_PruneRemovesBetaKeepsAlpha ==
  (tickStart.on /\ tickStart.done) =>
    /\ roomState[tickStart.beta] = "disposed"
    /\ tickStart.beta \notin activeRooms
    /\ ~Has(namespaceRooms, <<"beta">>)
    /\ npcAssignments[tickStart.beta] = EmptyMap
    /\ <<"beta">> \notin roomRows
    /\ DOMAIN NpcRowsOf(npcStore, <<"beta">>) = {}
    /\ roomState[tickStart.alpha] = "live"
    /\ Has(namespaceRooms, <<"alpha">>)
    /\ namespaceRooms[<<"alpha">>] = tickStart.alpha
    /\ npcAssignments[tickStart.alpha] = tickStart.alphaNpcs
    /\ <<"alpha">> \in roomRows
    /\ NpcRowsOf(npcStore, <<"alpha">>) = tickStart.alphaRows

\* Such a run has completed, and both rooms held NPCs when it began.
C5_Witness ==
  /\ tickStart.on /\ tickStart.done
  /\ tickStart.betaAgents # {}
  /\ DOMAIN tickStart.alphaNpcs # {}
  /\ roomState[tickStart.beta] = "disposed"

\* ------------------------------------------------------- the handshake
\* The handshake ends with a ServerError.
AuthFail(w, status, message) ==
  [w EXCEPT !.auth.pc = "done", !.auth.status = status,
            !.auth.message = message]

\* ensureNpcAssignmentsLoaded's forEach over the rows of the room.
RECURSIVE loadNpcRows(_, _, _)
loadNpcRows(w, r, agentIds) ==
  IF agentIds = {} THEN w
  ELSE LET a == CHOOSE x \in agentIds : TRUE
           npc == w.npcStore[a]
           w1 == upsertNpc(w, r,
                   [agentId |-> npc.agentId, name |-> npc.name,
                    avatarId |-> npc.avatarId,
                    workstationId |-> npc.workstationId,
                    position |-> npc.position, officeId |-> npc.officeId,
                    registryAgentId |-> npc.registryAgentId,
                    namespaceSlug |-> npc.namespaceSlug, role |-> npc.role,
                    computerId |-> npc.computerId],
                   [skipPersistence |-> TRUE, skipRegistrySync |-> TRUE])
       IN loadNpcRows(w1, r, agentIds \ {a})

\* ensureNpcAssignmentsLoaded(force) on room r
ensureNpcAssignmentsLoaded(w, r, force) ==
  IF ~force /\ DOMAIN w.npcAssignments[r] # {} THEN w
  ELSE LET npcs == {a \in DOMAIN w.npcStore :
                      (IF w.npcStore[a].roomName = <<>> THEN <<"Public Lobby">>
                       ELSE w.npcStore[a].roomName) = w.roomName[r]}
       IN updatePresenceMetadata(loadNpcRows(w, r, npcs), r)

\* A resolvePresenceSecret that returns a cached entry whatever its age.
resolvePresenceSecretIgnoringTtl(w, agentId, officeId, fresh) ==
  LET staticSecret == w.env.staticSecret
      resolvedOfficeId == IF officeId # "" THEN officeId ELSE w.env.officeId
      cacheKey == <<resolvedOfficeId, Lower(agentId)>>
  IN IF staticSecret # ""
       THEN [pc |-> "resolved", secret |-> staticSecret, source |-> "static",
             cacheKey |-> <<>>]
     ELSE IF resolvedOfficeId = ""
       THEN [pc |-> "resolved", secret |-> "", source |-> "registry",
             cacheKey |-> <<>>]
     ELSE IF Has(w.secretCache, cacheKey)
       THEN [pc |-> "resolved", secret |-> w.secretCache[cacheKey].secret,
             source |-> w.secretCache[cacheKey].source, cacheKey |-> cacheKey]
     ELSE [pc |-> "tenant-keys", secret |-> "", source |-> "",
           cacheKey |-> cacheKey]

\* A resolvePresenceSecret that does not look at the environment first.
resolvePresenceSecretSkippingStatic(w, agentId, officeId, fresh) ==
  LET resolvedOfficeId == IF officeId # "" THEN officeId ELSE w.env.officeId
      cacheKey == <<resolvedOfficeId, Lower(agentId)>>
  IN IF resolvedOfficeId = ""
       THEN [pc |-> "resolved", secret |-> "", source |-> "registry",
             cacheKey |-> <<>>]
     ELSE IF Has(w.secretCache, cacheKey) /\ fresh
       THEN [pc |-> "resolved", secret |-> w.secretCache[cacheKey].secret,
             source |-> w.secretCache[cacheKey].source, cacheKey |-> cacheKey]
     ELSE [pc |-> "tenant-keys", secret |-> "", source |-> "",
           cacheKey |-> cacheKey]

\* resolvePresenceSecret up to its first read from outside the process:
\* the entry it returns (secret "" for null), or that it goes on to load
\* the tenant keys.  `fresh` says whether a cached entry is younger than
\* SECRET_CACHE_TTL_MS.
resolvePresenceSecret(w, agentId, officeId, fresh) ==
  LET staticSecret == w.env.staticSecret
      resolvedOfficeId == IF officeId # "" THEN officeId ELSE w.env.officeId
      cacheKey == <<resolvedOfficeId, Lower(agentId)>>
  IN IF staticSecret # ""
       THEN [pc |-> "resolved", secret |-> staticSecret, source |-> "static",
             cacheKey |-> <<>>]
     ELSE IF resolvedOfficeId = ""
       THEN [pc |-> "resolved", secret |-> "", source |-> "registry",
             cacheKey |-> <<>>]
     ELSE IF Has(w.secretCache, cacheKey) /\ fresh
       THEN [pc |-> "resolved", secret |-> w.secretCache[cacheKey].secret,
             source |-> w.secretCache[cacheKey].source, cacheKey |-> cacheKey]
     ELSE [pc |-> "tenant-keys", secret |-> "", source |-> "",
           cacheKey |-> cacheKey]

\* validateNpcHandshake from the presence secret on; secret "" is the null
\* result.
validateNpcHandshakeResolved(w, secret, source) ==
  LET options == w.auth.options
      agentRaw == Lower(options.agentId)
      assignment == w.auth.assignment
      expectedNamespaceLower == LowerSlug(w.auth.expectedNamespace)
      verified == verifyManagerToken(options.managerToken, secret)
      payload == verified.payload
      w1 == [w EXCEPT !.auth.secret = secret,
                      !.auth.source = IF secret = "" THEN "null" ELSE source]
  IN IF secret = ""
       THEN AuthFail(w1, 503, "Presence credential unavailable")
     ELSE IF ~verified.ok
       THEN AuthFail(w1, 403, "Invalid managerToken")
     ELSE IF payload.agentId # "" /\ Lower(payload.agentId) # agentRaw
       THEN AuthFail(w1, 403, "managerToken agent mismatch")
     ELSE IF /\ payload.namespace # <<>>
             /\ expectedNamespaceLower # <<>>
             /\ LowerSlug(payload.namespace) # expectedNamespaceLower
       THEN AuthFail(w1, 403, "managerToken namespace mismatch")
     ELSE IF /\ expectedNamespaceLower # <<>>
             /\ assignment.namespaceSlug # <<>>
             /\ LowerSlug(assignment.namespaceSlug) # expectedNamespaceLower
       THEN AuthFail(w1, 403, "NPC namespace mismatch")
     ELSE [w1 EXCEPT !.auth.pc = "done", !.auth.status = 200,
                     !.auth.userData =
                       [npcAgentId |-> agentRaw,
                        npcKey |-> getNpcKey(agentRaw),
                        managerTokenPayload |-> payload,
                        presenceSecretSource |-> source]]

\* validateNpcHandshake once the assignments of room r are loaded: w2 is the
\* world after ensureNpcAssignmentsLoaded, reloaded when the agent was not
\* among them.
validateNpcHandshakeLoaded(w, w2, r, fresh) ==
  LET options == w.auth.options
      agentRaw == Lower(options.agentId)
      token == options.managerToken
      expectedNamespace ==
        IF options.namespaceSlug # <<>> THEN options.namespaceSlug
        ELSE IF w.roomSlug[r] # <<>> THEN w.roomSlug[r]
        ELSE w.roomName[r]
      expectedNamespaceLower == LowerSlug(expectedNamespace)
      currentNamespaceLower == LowerSlug(w.roomSlug[r])
      targetRoom == getRoomByNamespaceSlug(w2, expectedNamespaceLower)
  IN IF agentRaw = ""
       THEN [w EXCEPT !.auth.pc = "done", !.auth.status = 200]
     ELSE IF token = <<>>
       THEN AuthFail(w, 403, "managerToken is required for NPC connections")
     ELSE IF ~Has(w2.npcAssignments[r], agentRaw)
       THEN IF /\ expectedNamespaceLower # <<>>
               /\ currentNamespaceLower # <<>>
               /\ expectedNamespaceLower # currentNamespaceLower
               /\ targetRoom # 0
            THEN [AuthFail(w2, 410, "roomId") EXCEPT
                    !.auth.redirect = targetRoom]
            ELSE AuthFail(w2, 404, "NPC assignment not found")
     ELSE LET assignment == w2.npcAssignments[r][agentRaw]
              found == resolvePresenceSecret(w2, agentRaw,
                                             assignment.officeId, fresh)
              w3 == [w2 EXCEPT
                       !.auth.assignment =
                         [officeId |-> assignment.officeId,
                          namespaceSlug |-> assignment.namespaceSlug],
                       !.auth.expectedNamespace = expectedNamespace,
                       !.auth.cacheKey = found.cacheKey,
                       !.auth.cached = (found.pc = "resolved"
                                          /\ found.cacheKey # <<>>)]
          IN IF found.pc = "resolved"
             THEN validateNpcHandshakeResolved(w3, found.secret, found.source)
             ELSE [w3 EXCEPT !.auth.pc = "tenant-keys"]

\* The assignments of room r as validateNpcHandshake reads them: w1 is the
\* world after ensureNpcAssignmentsLoaded(), loaded again with force when
\* the agent is not among them.
ensureNpcAssignmentsLoadedFor(w1, r, agentRaw) ==
  IF Has(w1.npcAssignments[r], agentRaw) THEN w1
  ELSE ensureNpcAssignmentsLoaded(w1, r, TRUE)

\* validateNpcHandshake(client, options) on room r, up to the presence
\* secret.
validateNpcHandshake(w, r, fresh) ==
  validateNpcHandshakeLoaded(
    w,
    ensureNpcAssignmentsLoadedFor(ensureNpcAssignmentsLoaded(w, r, FALSE), r,
                                  Lower(w.auth.options.agentId)),
    r, fresh)

\* An onAuth that goes on whatever bcrypt.compare answered.
onAuthComparedIgnoringPassword(w, fresh) ==
  validateNpcHandshake(w, w.auth.room, fresh)

\* onAuth once bcrypt.compare has answered.
onAuthCompared(w, fresh) ==
  LET validPassword == BcryptCompare(w.auth.options.password, w.auth.hash)
  IN IF ~validPassword THEN AuthFail(w, 403, "Password is incorrect!")
     ELSE validateNpcHandshake(w, w.auth.room, fresh)

\* onAuth(client, options) on room r, up to its first await that leaves
\* the process.
onAuth(w, r, options, fresh) ==
  LET requestedNamespace ==
        IF options.namespaceSlug # <<>> THEN LowerSlug(options.namespaceSlug)
        ELSE LowerSlug(options.name)
      currentNamespace == LowerSlug(w.roomSlug[r])
      w1 == [w EXCEPT !.auth = [NoAuth EXCEPT !.room = r,
                                              !.options = options,
                                              !.hash = w.roomPassword[r]]]
  IN IF /\ requestedNamespace # <<>>
        /\ currentNamespace # <<>>
        /\ requestedNamespace # currentNamespace
       THEN AuthFail(w1, 403, "Namespace mismatch")
     ELSE IF w.roomPassword[r] # NoPassword
       THEN IF options.password = ""
            THEN AuthFail(w1, 403, "Password is required!")
            ELSE [w1 EXCEPT !.auth.pc = "compare"]
     ELSE validateNpcHandshake(w1, r, fresh)

\* The managerTokens clients present: none, and tokens the manager signed
\* with the secret of the office or with another one, for the agent, for
\* another agent, without an agent, and for a namespace.
HandshakeTokens ==
  LET for(agentId, namespace) ==
        [agentId |-> agentId, namespace |-> namespace, exp |-> 0]
  IN {<<>>,
      SignManagerToken("k1", for("a1", <<>>)),
      SignManagerToken("k1", for("a2", <<>>)),
      SignManagerToken("k1", for("", <<>>)),
      SignManagerToken("k1", for("a1", <<"alpha">>)),
      SignManagerToken("k2", for("a1", <<>>))}

\* The options clients connect with: humans, and NPC workers that give
\* their agent id in upper case.
HandshakeOptions ==
  {o \in [agentId : {"", "A1"}, managerToken : HandshakeTokens,
          namespaceSlug : {<<>>, <<"beta">>}, name : {<<>>},
          password : {"", "pw", "bad"}] :
     o.agentId = "" => o.managerToken = <<>>}

\* Whether Date.now() - cachedEntry.timestamp < SECRET_CACHE_TTL_MS: the
\* comparison is made on an entry of the cache, and has either outcome.
TtlOutcomes == IF DOMAIN secretCache = {} THEN {FALSE} ELSE BOOLEAN

\* A client connects to room r: the transport calls onAuth.
OnAuth ==
  /\ auth.pc = "idle"
  /\ \E r \in activeRooms :
       /\ roomState[r] = "live"
       /\ \E options \in HandshakeOptions, fresh \in TtlOutcomes :
            /\ SetWorld(onAuth(World, r, options, fresh))
            /\ lastOp' = [NoOp EXCEPT !.op = "onAuth", !.room = r]
            /\ tickStart' = NoTick

\* bcrypt.compare answers.
AuthCompared ==
  /\ auth.pc = "compare"
  /\ \E fresh \in TtlOutcomes : SetWorld(onAuthCompared(World, fresh))
  /\ lastOp' = [NoOp EXCEPT !.op = "onAuth", !.room = auth.room]
  /\ tickStart' = NoTick

\* loadSecretFromTenantKeys answers with the secret of the office, or with
\* none; resolvePresenceSecret then asks the Registry.
AuthTenantKeysLoadedOf(secrets) ==
  /\ auth.pc = "tenant-keys"
  /\ \E tenantSecret \in secrets :
       IF tenantSecret # ""
       THEN SetWorld(validateNpcHandshakeResolved(
              [World EXCEPT !.secretCache =
                 Put(@, auth.cacheKey,
                     [secret |-> tenantSecret, source |-> "tenant-keys"])],
              tenantSecret, "tenant-keys"))
       ELSE SetWorld([World EXCEPT !.auth.pc = "registry"])
  /\ lastOp' = [NoOp EXCEPT !.op = "onAuth", !.room = auth.room]
  /\ tickStart' = NoTick

\* fetchPresenceSecretFromRegistry answers with a secret, or with none and
\* resolvePresenceSecret returns null.
AuthRegistryFetchedOf(secrets) ==
  /\ auth.pc = "registry"
  /\ \E registrySecret \in secrets :
       IF registrySecret # ""
       THEN SetWorld(validateNpcHandshakeResolved(
              [World EXCEPT !.secretCache =
                 Put(@, auth.cacheKey,
                     [secret |-> registrySecret, source |-> "registry"])],
              registrySecret, "registry"))
       ELSE SetWorld(validateNpcHandshakeResolved(World, "", "registry"))
  /\ lastOp' = [NoOp EXCEPT !.op = "onAuth", !.room = auth.room]
  /\ tickStart' = NoTick

AuthTenantKeysLoaded == AuthTenantKeysLoadedOf({"", "k1"})

AuthRegistryFetched == AuthRegistryFetchedOf({"", "k2"})

\* The transport has answered the client, with the error or with the seat
\* reserved for it; the next client may connect.
AuthAnswered ==
  /\ auth.pc = "done"
  /\ SetWorld([World EXCEPT !.auth = NoAuth])
  /\ lastOp' = NoOp
  /\ tickStart' = NoTick

\* The server has started with or without a static presence secret.
InitAuth ==
  /\ InitServer
  /\ vt = VtNone
  /\ pf = PfNone
  /\ \E staticSecret \in {"", "k1"} :
       env = [NoEnv EXCEPT !.staticSecret = staticSecret]

\* Clients connecting to the rooms of the offices and to a room a user
\* protected with a password, with an NPC deployed.
NextAuth ==
  \/ EnsFetchedOf("boot", {Offices})
  \/ EnsCreated("boot")
  \/ /\ Cardinality({r \in RoomIds : roomPassword[r] # NoPassword})
          < MaxPasswordRooms
     /\ ClientCreateOf({<<"beta">>}, {FALSE}, {"pw"})
  \/ DeployCharacterOf({"a1"}, {"", "o-alpha"}, {<<>>}, {})
  \/ OnAuth
  \/ AuthCompared
  \/ AuthTenantKeysLoaded
  \/ AuthRegistryFetched
  \/ AuthAnswered

SpecAuth == InitAuth /\ [][NextAuth]_vars

\* C7, as stated: with rooms alpha and beta live, the handshake of an NPC
\* (agentId and managerToken given) that names namespace beta and reaches
\* room alpha ends with status 410 carrying the roomId of room beta.
C7_MisroutedHandshakeGets410 ==
  (/\ auth.pc = "done"
   /\ lastOp.op = "onAuth"
   /\ auth.options.agentId # ""
   /\ auth.options.managerToken # <<>>
   /\ auth.options.namespaceSlug = <<"beta">>
   /\ roomSlug[auth.room] = <<"alpha">>
   /\ roomState[auth.room] = "live"
   /\ Has(namespaceRooms, <<"beta">>)
   /\ roomState[namespaceRooms[<<"beta">>]] = "live")
  => (auth.status = 410 /\ auth.redirect = namespaceRooms[<<"beta">>])

\* Such a handshake has ended with the 403 of onAuth's own namespace check.
C7_Witness ==
  /\ auth.pc = "done"
  /\ lastOp.op = "onAuth"
  /\ auth.options.agentId # ""
  /\ auth.options.managerToken # <<>>
  /\ auth.options.namespaceSlug = <<"beta">>
  /\ roomSlug[auth.room] = <<"alpha">>
  /\ roomState[auth.room] = "live"
  /\ Has(namespaceRooms, <<"beta">>)
  /\ roomState[namespaceRooms[<<"beta">>]] = "live"
  /\ auth.status = 403
  /\ auth.message = "Namespace mismatch"

\* C8, as stated: when the handshake of an NPC with request agentId A has
\* succeeded and the marker npcKey is on the client, the managerToken
\* verifies with the presence secret that was resolved and the agentId of
\* its payload equals A, both in lower case.
C8_MarkerMeansTokenNamesAgent ==
  (auth.pc = "done" /\ auth.status = 200 /\ auth.userData.npcKey # <<>>) =>
    LET verified == verifyManagerToken(auth.options.managerToken, auth.secret)
    IN /\ auth.secret # ""
       /\ verified.ok
       /\ Lower(verified.payload.agentId) = Lower(auth.options.agentId)

\* A handshake has attached the marker on a token that verifies and whose
\* payload names no agent.
C8_Witness ==
  /\ auth.pc = "done"
  /\ auth.status = 200
  /\ auth.userData.npcKey = getNpcKey("a1")
  /\ verifyManagerToken(auth.options.managerToken, auth.secret).ok
  /\ auth.userData.managerTokenPayload.agentId = ""

\* C10: of a handshake with a room that has a password, one that succeeded
\* gave a password that matches the hash of the room, and one that gave no
\* password or a password that does not match ends with status 403 and at
\* no point has the marker npcKey on its client.
C10_PasswordRoomsRequireThePassword ==
  (auth.pc # "idle" /\ auth.hash # NoPassword) =>
    /\ auth.status = 200 =>
         BcryptCompare(auth.options.password, auth.hash)
    /\ ~BcryptCompare(auth.options.password, auth.hash) =>
         /\ auth.userData.npcKey = <<>>
         /\ auth.pc = "done" => auth.status = 403

\* An NPC has passed the handshake with a room that has a password.
C10_Witness ==
  /\ auth.pc = "done"
  /\ auth.hash # NoPassword
  /\ auth.hash = roomPassword[auth.room]
  /\ auth.options.password = "pw"
  /\ auth.status = 200
  /\ auth.userData.npcKey = getNpcKey("a1")

\* ------------------------------------------------- clients at computers
\* new Player()
NewPlayer ==
  [name |-> "", position |-> <<705, 500>>, readyToConnect |-> FALSE,
   videoConnected |-> FALSE, anim |-> <<"adam", "idle_down">>]

\* syncNpcsToClient's forEach over the assignments of the room.
RECURSIVE syncNpcs(_, _, _)
syncNpcs(w, r, agentIds) ==
  IF agentIds = {} THEN w
  ELSE LET a == CHOOSE x \in agentIds : TRUE
           assignment == w.npcAssignments[r][a]
           key == getNpcKey(assignment.agentId)
           player ==
             [name |-> assignment.name,
              position |-> assignment.position,
              readyToConnect |-> TRUE,
              videoConnected |-> FALSE,
              anim |-> IF assignment.computerId # ""
                       THEN getSittingAnim(assignment.avatarId)
                       ELSE getIdleAnim(assignment.avatarId)]
           seat == assignNpcToWorkstation(w.computers[r], key, assignment)
           w1 == [w EXCEPT
                    !.players[r] = Put(@, key, player),
                    !.computers[r] = seat.computers,
                    !.npcAssignments[r][a].computerId =
                      IF seat.computerId # "" THEN seat.computerId ELSE @]
       IN syncNpcs(w1, r, agentIds \ {a})

\* syncNpcsToClient(client) on room r
syncNpcsToClient(w, r) ==
  LET w1 == ensureNpcAssignmentsLoaded(w, r, FALSE)
  IN syncNpcs(w1, r, DOMAIN w1.npcAssignments[r])

\* onJoin(client, options) on room r, the transport having added the client
\* to this.clients; npcKey is the marker of the client, <<>> for none.
onJoin(w, r, sessionId, npcKey) ==
  LET w1 == [w EXCEPT !.clients[r] = @ \cup {sessionId}]
      w2 == IF npcKey = <<>>
            THEN [w1 EXCEPT !.players[r] =
                    Put(@, SessionKey(sessionId), NewPlayer)]
            ELSE w1
  IN updatePresenceMetadata(syncNpcsToClient(w2, r), r)

\* An onLeave that leaves the whiteboards as they are.
onLeaveKeepingWhiteboards(w, r, sessionId) ==
  LET key == SessionKey(sessionId)
      w1 == [w EXCEPT !.clients[r] = @ \ {sessionId},
                      !.players[r] = Del(@, key),
                      !.computers[r] = [c \in DOMAIN @ |-> @[c] \ {key}]]
  IN updatePresenceMetadata(w1, r)

\* onLeave(client, consented) on room r, the transport having removed the
\* client from this.clients.
onLeave(w, r, sessionId) ==
  LET key == SessionKey(sessionId)
      w1 == [w EXCEPT !.clients[r] = @ \ {sessionId},
                      !.players[r] = Del(@, key),
                      !.computers[r] = [c \in DOMAIN @ |-> @[c] \ {key}],
                      !.whiteboards[r] = [b \in DOMAIN @ |-> @[b] \ {key}]]
  IN updatePresenceMetadata(w1, r)

\* WhiteboardAddUserCommand: adds the sender to connectedUser of the
\* whiteboard.
WhiteboardAddUserCommand(w, r, sessionId, whiteboardId) ==
  IF whiteboardId \notin DOMAIN w.whiteboards[r] THEN w
  ELSE [w EXCEPT !.whiteboards[r][whiteboardId] =
          @ \cup {SessionKey(sessionId)}]

\* WhiteboardRemoveUserCommand: removes the sender from connectedUser of the
\* whiteboard.
WhiteboardRemoveUserCommand(w, r, sessionId, whiteboardId) ==
  IF whiteboardId \notin DOMAIN w.whiteboards[r] THEN w
  ELSE [w EXCEPT !.whiteboards[r][whiteboardId] =
          @ \ {SessionKey(sessionId)}]

\* ComputerAddUserCommand: adds the sender to connectedUser of the computer.
ComputerAddUserCommand(w, r, sessionId, computerId) ==
  IF computerId \notin DOMAIN w.computers[r] THEN w
  ELSE [w EXCEPT !.computers[r][computerId] = @ \cup {SessionKey(sessionId)}]

\* ComputerRemoveUserCommand: removes the sender from connectedUser of the
\* computer.
ComputerRemoveUserCommand(w, r, sessionId, computerId) ==
  IF computerId \notin DOMAIN w.computers[r] THEN w
  ELSE [w EXCEPT !.computers[r][computerId] = @ \ {SessionKey(sessionId)}]

\* A field the caller of updateNpcState did not give.
Undefined == "(undefined)"

\* An updateNpcState that refreshes the online counts before it returns
\* null.
updateNpcStateRefreshingCounts(w, r, agentId, update) ==
  LET key == getNpcKey(agentId)
      hasPlayer == Has(w.players[r], key)
  IN IF ~Has(w.npcAssignments[r], agentId)
     THEN [world |-> updatePresenceMetadata(w, r), found |-> FALSE,
           patches |-> <<>>]
     ELSE
       LET old == w.npcAssignments[r][agentId]
           moved == IF update.position # <<>>
                    THEN [old EXCEPT !.position = update.position] ELSE old
           assignment ==
             IF update.workstationId # Undefined
             THEN [moved EXCEPT !.workstationId = update.workstationId]
             ELSE moved
           w1 == [w EXCEPT !.npcAssignments[r][agentId] = assignment]
           w2 == IF hasPlayer /\ update.position # <<>>
                 THEN [w1 EXCEPT !.players[r][key].position = update.position]
                 ELSE w1
           w3 == IF ~hasPlayer THEN w2
                 ELSE IF update.anim # <<>>
                   THEN [w2 EXCEPT !.players[r][key].anim = update.anim]
                 ELSE IF update.posture # ""
                   THEN [w2 EXCEPT !.players[r][key].anim =
                           IF update.posture = "sit"
                           THEN getSittingAnim(assignment.avatarId)
                           ELSE getIdleAnim(assignment.avatarId)]
                 ELSE w2
           w4 == [w3 EXCEPT !.npcStore =
                    saveNpc(@, NpcRow(assignment, w.roomName[r]))]
       IN [world |-> updatePresenceMetadata(w4, r), found |-> TRUE,
           patches |-> syncNpcToRegistry(assignment)]

\* updateNpcState(agentId, update) on room r: the state afterwards,
\* whether it returned a result rather than null, and the PATCH requests
\* it issued.
updateNpcState(w, r, agentId, update) ==
  LET key == getNpcKey(agentId)
      hasPlayer == Has(w.players[r], key)
  IN IF ~Has(w.npcAssignments[r], agentId)
     THEN [world |-> w, found |-> FALSE, patches |-> <<>>]
     ELSE
       LET old == w.npcAssignments[r][agentId]
           moved == IF update.position # <<>>
                    THEN [old EXCEPT !.position = update.position] ELSE old
           assignment ==
             IF update.workstationId # Undefined
             THEN [moved EXCEPT !.workstationId = update.workstationId]
             ELSE moved
           w1 == [w EXCEPT !.npcAssignments[r][agentId] = assignment]
           w2 == IF hasPlayer /\ update.position # <<>>
                 THEN [w1 EXCEPT !.players[r][key].position = update.position]
                 ELSE w1
           w3 == IF ~hasPlayer THEN w2
                 ELSE IF update.anim # <<>>
                   THEN [w2 EXCEPT !.players[r][key].anim = update.anim]
                 ELSE IF update.posture # ""
                   THEN [w2 EXCEPT !.players[r][key].anim =
                           IF update.posture = "sit"
                           THEN getSittingAnim(assignment.avatarId)
                           ELSE getIdleAnim(assignment.avatarId)]
                 ELSE w2
           w4 == [w3 EXCEPT !.npcStore =
                    saveNpc(@, NpcRow(assignment, w.roomName[r]))]
       IN [world |-> updatePresenceMetadata(w4, r), found |-> TRUE,
           patches |-> syncNpcToRegistry(assignment)]

\* The session ids the transport gives to clients.
SessionIds == {"s1", "s2"}

\* The computerIds clients send: two computers, and one that does not
\* exist.
MessageComputerIds == {"0", "1", "9"}

\* The updates updateNpcState is called with.
NoUpdate ==
  [position |-> <<>>, anim |-> <<>>, posture |-> "", workstationId |-> Undefined]
NpcUpdates ==
  {[NoUpdate EXCEPT !.posture = "sit"],
   [NoUpdate EXCEPT !.position = <<50, 60>>, !.posture = "stand"],
   [NoUpdate EXCEPT !.anim = <<"adam", "wave">>],
   [NoUpdate EXCEPT !.workstationId = "dev-desk"]}

\* The whiteboards of room r whose connectedUser holds the session key.
WhiteboardsOf(r, key) ==
  {b \in DOMAIN whiteboards[r] : key \in whiteboards[r][b]}

\* A human client joins a room.
OnJoin ==
  \E r \in activeRooms, sessionId \in SessionIds :
    /\ roomState[r] = "live"
    /\ \A q \in RoomIds : sessionId \notin clients[q]
    /\ SetWorld(onJoin(World, r, sessionId, <<>>))
    /\ lastOp' = [NoOp EXCEPT !.op = "onJoin", !.room = r]
    /\ tickStart' = NoTick

\* A client leaves its room.
OnLeave ==
  \E r \in activeRooms, sessionId \in SessionIds :
    /\ sessionId \in clients[r]
    /\ SetWorld(onLeave(World, r, sessionId))
    /\ lastOp' = [NoOp EXCEPT
         !.op = "onLeave", !.room = r,
         !.entry = Cardinality(ComputersOf(r, SessionKey(sessionId)))
                     + Cardinality(WhiteboardsOf(r, SessionKey(sessionId)))]
    /\ tickStart' = NoTick

\* A client sends CONNECT_TO_COMPUTER.
ConnectToComputer ==
  \E r \in activeRooms, sessionId \in SessionIds,
     computerId \in MessageComputerIds :
    /\ sessionId \in clients[r]
    /\ SetWorld(ComputerAddUserCommand(World, r, sessionId, computerId))
    /\ lastOp' = [NoOp EXCEPT !.op = "CONNECT_TO_COMPUTER", !.room = r,
                              !.computerId = computerId]
    /\ tickStart' = NoTick

\* A client sends DISCONNECT_FROM_COMPUTER.
DisconnectFromComputer ==
  \E r \in activeRooms, sessionId \in SessionIds,
     computerId \in MessageComputerIds :
    /\ sessionId \in clients[r]
    /\ SetWorld(ComputerRemoveUserCommand(World, r, sessionId, computerId))
    /\ lastOp' = [NoOp EXCEPT !.op = "DISCONNECT_FROM_COMPUTER", !.room = r,
                              !.computerId = computerId]
    /\ tickStart' = NoTick

\* The whiteboardIds clients send: one whiteboard, and one that does not
\* exist.
MessageWhiteboardIds == {"0", "7"}

\* A client sends CONNECT_TO_WHITEBOARD.
ConnectToWhiteboard ==
  \E r \in activeRooms, sessionId \in SessionIds,
     whiteboardId \in MessageWhiteboardIds :
    /\ sessionId \in clients[r]
    /\ SetWorld(WhiteboardAddUserCommand(World, r, sessionId, whiteboardId))
    /\ lastOp' = [NoOp EXCEPT !.op = "CONNECT_TO_WHITEBOARD", !.room = r]
    /\ tickStart' = NoTick

\* A client sends DISCONNECT_FROM_WHITEBOARD.
DisconnectFromWhiteboard ==
  \E r \in activeRooms, sessionId \in SessionIds,
     whiteboardId \in MessageWhiteboardIds :
    /\ sessionId \in clients[r]
    /\ SetWorld(WhiteboardRemoveUserCommand(World, r, sessionId, whiteboardId))
    /\ lastOp' = [NoOp EXCEPT !.op = "DISCONNECT_FROM_WHITEBOARD", !.room = r]
    /\ tickStart' = NoTick

\* room.updateNpcState(agentId, update)
UpdateNpcStateOf(agentIds) ==
  \E r \in activeRooms, agentId \in agentIds, update \in NpcUpdates :
    /\ roomState[r] = "live"
    /\ SetWorld(updateNpcState(World, r, agentId, update).world)
    /\ lastOp' = [NoOp EXCEPT
         !.op = "updateNpcState", !.room = r, !.agent = agentId,
         !.entry = IF updateNpcState(World, r, agentId, update).found
                   THEN 1 ELSE 0,
         !.patches = updateNpcState(World, r, agentId, update).patches]
    /\ tickStart' = NoTick

\* One room with its clients, their computers and one NPC.
NextSeat ==
  \/ OpenPublicRoom
  \/ OnJoin
  \/ OnLeave
  \/ ConnectToComputer
  \/ DisconnectFromComputer
  \/ UpsertNpcOf({"a1"})
  \/ UpdateNpcStateOf({"a1"})
  \/ RemoveNpcOf({"a1"})

SpecSeat == Init /\ [][NextSeat]_vars

\* C12, as stated: in every room each session key, of a human or of an
\* NPC, is in connectedUser of at most one computer.
C12_OneComputerPerSessionKey ==
  \A r \in RoomIds :
    \A key \in UNION {computers[r][c] : c \in DOMAIN computers[r]} :
      Cardinality(ComputersOf(r, key)) <= 1

\* A client that sent CONNECT_TO_COMPUTER twice is at two computers.
C12_Witness ==
  /\ lastOp.op = "CONNECT_TO_COMPUTER"
  /\ \E sessionId \in clients[lastOp.room] :
       ComputersOf(lastOp.room, SessionKey(sessionId)) = {"0", "1"}

\* ------------------------------------------ DELETE /api/rooms/:namespace
\* The namespaces the endpoint is asked to destroy.
DestroyedSlugs == {<<"beta">>}

\* The registry room beta, client rooms named beta, an NPC deployed to beta,
\* and DELETE requests with the dispose they await.
NextDestroy ==
  \/ EnsFetchedOf("boot", {{o \in Offices : o.namespaceSlug = <<"beta">>}})
  \/ EnsCreated("boot")
  \/ ClientCreateOf({<<"beta">>}, {FALSE}, {""})
  \/ DeployCharacterOf({"a1"}, {""}, {<<"beta">>}, {})
  \/ DeployQueried
  \/ ApiDestroyNamespaceOf(DestroyedSlugs, {"none", "removeNpcPersist"})
  \/ Dispose
  \/ DnDisconnected("api")
  \/ DnQueried("api")

SpecDestroy == Init /\ [][NextDestroy]_vars

NextFault ==
  \/ EnsFetchedOf("boot", {{o \in Offices : o.namespaceSlug = <<"beta">>}})
  \/ EnsCreated("boot")
  \/ DeployCharacterOf({"a1"}, {""}, {<<"beta">>}, {})
  \/ DeployQueried
  \/ ApiDestroyNamespaceOf(DestroyedSlugs, DnFaults)
  \/ Dispose
  \/ DnDisconnected("api")
  \/ DnQueried("api")

SpecFault == Init /\ [][NextFault]_vars

\* C14, as stated: no call of destroyNamespace rejects, whichever sub-step
\* of it fails.
C14_DestroyNamespaceNeverRejects == ~tickStart.rejected

\* A call in which deleteRoomByName throws has returned its result.
C14_Witness ==
  /\ tickStart.calls = 1 /\ tickStart.ended
  /\ tickStart.fault = "deleteRoomByName"
  /\ tickStart.removedRooms # <<>>

\* ------------------------------------------- agents, store and Registry
\* The payloads of the NPC calls: two casings of one agentId, with and
\* without the Registry identifiers.
AgentPayloads ==
  LET base == [agentId |-> "a1", name |-> "npc", avatarId |-> "adam",
               workstationId |-> "design-studio", position |-> <<10, 20>>,
               officeId |-> "", registryAgentId |-> "",
               namespaceSlug |-> <<>>, role |-> "", computerId |-> ""]
  IN {[base EXCEPT !.agentId = agentId, !.officeId = ids[1],
                   !.registryAgentId = ids[2]] :
        agentId \in {"a1", "A1"},
        ids \in {<<"", "">>, <<"o-alpha", "">>, <<"o-alpha", "r-1">>}}

\* One public room and the NPC calls on it.
NextAgents ==
  \/ OpenPublicRoom
  \/ UpsertNpcWith(AgentPayloads, BOOLEAN, BOOLEAN)
  \/ UpdateNpcStateOf({"a1", "A1"})
  \/ RemoveNpcOf({"a1", "A1"})

SpecAgents == Init /\ [][NextAgents]_vars

\* C15, as stated: after an upsertNpc whose write to the local store
\* failed, the call has returned, the assignment and its Player are in the
\* room, the Registry PATCH is issued unless skipRegistrySync (for an
\* assignment that carries the Registry identifiers), and the online counts
\* are those of the room.
C15_UpsertSurvivesStoreFailure ==
  lastOp.storeFailed =>
    LET r == lastOp.room
        a == lastOp.agent
    IN /\ lastOp.op = "upsertNpc"
       /\ Has(npcAssignments[r], a)
       /\ Has(players[r], getNpcKey(a))
       /\ (/\ ~lastOp.skipRegistrySync
           /\ npcAssignments[r][a].officeId # ""
           /\ npcAssignments[r][a].registryAgentId # "") =>
            lastOp.patches # <<>>
       /\ presence[r].npcOnlineCount = Cardinality(DOMAIN npcAssignments[r])

\* An upsertNpc whose write failed has left the assignment and the Player
\* of a new NPC in the room.
C15_Witness ==
  /\ lastOp.storeFailed
  /\ Has(npcAssignments[lastOp.room], lastOp.agent)
  /\ Has(players[lastOp.room], getNpcKey(lastOp.agent))
  /\ presence[lastOp.room].npcOnlineCount
       # Cardinality(DOMAIN npcAssignments[lastOp.room])

\* C17, as stated: an upsertNpc call made without skipRegistrySync has
\* issued exactly one Registry PATCH, with isPresentInSkyOffice = true, and
\* a removeNpc of an existing assignment has issued exactly one, with
\* isPresentInSkyOffice = false, whatever identifiers the payload carried.
C17_OnePatchPerUpsertAndRemoval ==
  /\ (lastOp.op \in {"upsertNpc", "upsertNpc:threw"}
        /\ ~lastOp.skipRegistrySync) =>
       /\ Len(lastOp.patches) = 1
       /\ lastOp.patches[1].isPresentInSkyOffice
  /\ (lastOp.op = "removeNpc" /\ lastOp.entry = 1) =>
       /\ Len(lastOp.patches) = 1
       /\ ~lastOp.patches[1].isPresentInSkyOffice

\* An upsertNpc without skipRegistrySync has returned for a payload that
\* carries an officeId and no registryAgentId.
C17_Witness ==
  /\ lastOp.op = "upsertNpc" /\ ~lastOp.skipRegistrySync
  /\ npcAssignments[lastOp.room][lastOp.agent].officeId = "o-alpha"
  /\ npcAssignments[lastOp.room][lastOp.agent].registryAgentId = ""

\* C18, as stated: a room never holds two assignments whose agentIds are
\* equal after lowercasing.
C18_AgentIdsAreCaseInsensitive ==
  \A r \in RoomIds : \A a, b \in DOMAIN npcAssignments[r] :
    Lower(a) = Lower(b) => a = b

\* An upsertNpc under one casing has returned in a room that holds an
\* assignment under that casing.
C18_Witness ==
  /\ lastOp.op = "upsertNpc" /\ lastOp.agent = "A1"
  /\ Has(npcAssignments[lastOp.room], "A1")

\* -------------------------------------------------------- process start
\* The npcs row a run of the server left on disk for agent a1 of the room
\* Public Lobby.
PreloadedRow ==
  [agentId |-> "a1", registryAgentId |-> "", officeId |-> "",
   name |-> "npc", avatarId |-> "adam", workstationId |-> "design-studio",
   position |-> <<10, 20>>, role |-> normaliseNpcRole(""),
   computerId |-> resolveComputerIdFromWorkstation("design-studio"),
   roomName |-> <<"Public Lobby">>, namespaceSlug |-> <<"Public Lobby">>]

\* The process is loaded and bootstrapRegistrySync has not run: the tables
\* are as the last run left them, the npcs table empty or with the row.
InitStart ==
  /\ roomState = [r \in RoomIds |-> "none"]
  /\ roomName = [r \in RoomIds |-> <<>>]
  /\ roomSlug = [r \in RoomIds |-> <<>>]
  /\ roomBacked = [r \in RoomIds |-> FALSE]
  /\ roomAutoDispose = [r \in RoomIds |-> FALSE]
  /\ roomPassword = [r \in RoomIds |-> NoPassword]
  /\ activeRooms = {}
  /\ namespaceRooms = EmptyMap
  /\ listings = {}
  /\ roomRows \in {{}, {<<"Public Lobby">>}}
  /\ players = [r \in RoomIds |-> EmptyMap]
  /\ computers = [r \in RoomIds |-> EmptyMap]
  /\ whiteboards = [r \in RoomIds |-> EmptyMap]
  /\ npcAssignments = [r \in RoomIds |-> EmptyMap]
  /\ presence = [r \in RoomIds |->
       [clientsOnlineCount |-> 0, npcOnlineCount |-> 0, totalOnlineCount |-> 0]]
  /\ clients = [r \in RoomIds |-> {}]
  /\ npcStore \in {EmptyMap, Put(EmptyMap, "a1", PreloadedRow)}
  /\ registrySyncInFlight = FALSE
  /\ ens = [c \in Callers |->
       IF c = "boot" THEN [EnsIdle EXCEPT !.pc = "start"] ELSE EnsIdle]
  /\ dn = [t \in Tasks |-> DnIdle]
  /\ deploy = NoDeploy
  /\ sync = EmptyMap
  /\ secretCache = EmptyMap
  /\ auth = NoAuth
  /\ lastOp = NoOp
  /\ tickStart = NoTick
  /\ vt = VtNone
  /\ pf = PfNone
  /\ env = [NoEnv EXCEPT !.staticSecret = "k1", !.preloaded = npcStore]

\* bootstrapRegistrySync up to the first await of its runRegistryEnsure:
\* clearAllRooms and clearAllNpcs, each of which may throw and be logged.
bootstrapRegistrySync(w, roomsCleared, npcsCleared) ==
  runRegistryEnsure(
    [w EXCEPT !.roomRows = IF roomsCleared THEN {} ELSE @,
              !.npcStore = IF npcsCleared THEN EmptyMap ELSE @,
              !.ens["boot"] = EnsIdle],
    "boot")

\* The module of the server index runs bootstrapRegistrySync when it is
\* loaded, before the transport serves any client.
BootstrapRegistrySync ==
  /\ ens["boot"].pc = "start"
  /\ \E roomsCleared \in BOOLEAN, npcsCleared \in BOOLEAN :
       SetWorld(bootstrapRegistrySync(World, roomsCleared, npcsCleared))
  /\ lastOp' = [NoOp EXCEPT !.op = "bootstrapRegistrySync"]
  /\ tickStart' = NoTick

\* The start of the process, the public room and the clients that connect
\* to it.
NextStart ==
  \/ BootstrapRegistrySync
  \/ ens["boot"].pc # "start" /\ OpenPublicRoom
  \/ ens["boot"].pc # "start" /\ OnAuth
  \/ AuthAnswered

SpecStart == InitStart /\ [][NextStart]_vars

\* C16, as stated: when the npcs table held a row of room Public Lobby for
\* an agent at process start, an NPC handshake for that agent (agentId and
\* managerToken given, no other namespace named) into the Public Lobby room
\* has left the room with an assignment for the agent that has the fields
\* of the row.
C16_PreloadedRowIsRehydrated ==
  (/\ auth.pc = "done"
   /\ auth.options.managerToken # <<>>
   /\ auth.options.namespaceSlug = <<>>
   /\ Has(env.preloaded, Lower(auth.options.agentId))
   /\ roomName[auth.room] = <<"Public Lobby">>) =>
    LET agentId == Lower(auth.options.agentId)
        row == env.preloaded[agentId]
    IN /\ Has(npcAssignments[auth.room], agentId)
       /\ \A f \in {"agentId", "registryAgentId", "officeId", "name",
                    "avatarId", "workstationId", "position", "role",
                    "computerId", "namespaceSlug"} :
            npcAssignments[auth.room][agentId][f] = row[f]

\* A handshake has rehydrated the assignment of the row, the truncation of
\* the npcs table at bootstrap having failed.
C16_Witness ==
  /\ auth.pc = "done"
  /\ auth.options.managerToken # <<>>
  /\ auth.options.namespaceSlug = <<>>
  /\ Has(env.preloaded, "a1")
  /\ Has(npcAssignments[auth.room], "a1")
  /\ npcAssignments[auth.room]["a1"].workstationId = "design-studio"
  /\ getNpcKey("a1") \in computers[auth.room]["2"] \cup computers[auth.room]["0"]
       \cup computers[auth.room]["1"] \cup computers[auth.room]["3"]
       \cup computers[auth.room]["4"]

\* ------------------------------------------------------ findPath, alone
\* The pixel coordinates looked at along one axis of n tiles: one left of
\* the grid, one in every inner tile and one right of the grid, so that the
\* first and the last tile are reached by clamping.
AxisPixels(n) ==
  {-1} \cup {TileSize * t + 5 : t \in 1 .. n - 2} \cup {TileSize * n + 5}

PathPoints == AxisPixels(GridWidth) \X AxisPixels(GridHeight)

\* A findPath call on any grid, from any start point to any target point.
InitPath ==
  /\ InitServer
  /\ vt = VtNone
  /\ env = NoEnv
  /\ \E grid \in Grids, start \in PathPoints, target \in PathPoints :
       pf = [pc |-> "ready", grid |-> grid, start |-> start, target |-> target,
             result |-> NoPath, status |-> 0]

FindPath ==
  /\ pf.pc = "ready"
  /\ SetWorld([World EXCEPT
       !.pf = [pf EXCEPT !.pc = "done",
                         !.result = findPath(pf.grid, pf.start, pf.target)]])
  /\ UNCHANGED <<lastOp, tickStart>>

\* POST /api/pathfind with the two points, either of them possibly not
\* numeric.
ApiPathfind ==
  /\ pf.pc = "ready"
  /\ \E startIsValid \in BOOLEAN, targetIsValid \in BOOLEAN :
       SetWorld([World EXCEPT !.pf = apiPathfind(pf, startIsValid, targetIsValid)])
  /\ UNCHANGED <<lastOp, tickStart>>

NextPath ==
  \/ FindPath
  \/ ApiPathfind

SpecPath == InitPath /\ [][NextPath]_vars

\* The tiles of the waypoints findPath returned.
WaypointTiles == [i \in 1 .. Len(pf.result) |-> toTile(pf.result[i])]

\* C19: whenever findPath returns a path, every waypoint of it, from the
\* first to the last, is the center of a walkable tile (grid value 0).
C19_WaypointsAreWalkable ==
  (pf.pc = "done" /\ pf.result # NoPath) =>
    \A i \in 1 .. Len(pf.result) :
      /\ pf.result[i] = toPixel(WaypointTiles[i])
      /\ isWalkable(pf.grid, WaypointTiles[i])

\* findPath returned a path of several waypoints around a blocked tile.
C19_Witness ==
  /\ pf.pc = "done"
  /\ Len(pf.result) > 3
  /\ \E t \in Tiles : ~isWalkable(pf.grid, t)

\* C20: whenever findPath returns a path, the tiles of consecutive waypoints
\* are 4-neighbours (they differ by exactly 1 in exactly one coordinate), the
\* first waypoint's tile is the clamped start tile, the last waypoint's tile
\* is the clamped target tile, and no tile is repeated.
C20_PathIsConnectedAndSimple ==
  (pf.pc = "done" /\ pf.result # NoPath) =>
    /\ WaypointTiles[1] = toTile(pf.start)
    /\ WaypointTiles[Len(pf.result)] = toTile(pf.target)
    /\ \A i \in 1 .. Len(pf.result) - 1 :
         \/ /\ Abs(WaypointTiles[i][1] - WaypointTiles[i + 1][1]) = 1
            /\ WaypointTiles[i][2] = WaypointTiles[i + 1][2]
         \/ /\ Abs(WaypointTiles[i][2] - WaypointTiles[i + 1][2]) = 1
            /\ WaypointTiles[i][1] = WaypointTiles[i + 1][1]
    /\ \A i, j \in 1 .. Len(pf.result) : i # j => WaypointTiles[i] # WaypointTiles[j]

\* findPath returned a path that is longer than the distance between its
\* clamped ends: it goes around blocked tiles.
C20_Witness ==
  /\ pf.pc = "done"
  /\ pf.result # NoPath
  /\ toTile(pf.start) # toTile(pf.target)
  /\ Len(pf.result) > heuristic(toTile(pf.start), toTile(pf.target)) + 1

\* The tiles reached from the tiles of a set by steps onto walkable
\* 4-neighbours.
RECURSIVE ReachedFrom(_, _)
ReachedFrom(grid, reached) ==
  LET more == {t \in Tiles : /\ isWalkable(grid, t)
                             /\ \E u \in reached : heuristic(t, u) = 1}
  IN IF more \subseteq reached THEN reached
     ELSE ReachedFrom(grid, reached \cup more)

\* A chain of 4-connected walkable tiles leads from one tile to the other.
Reachable(grid, from, to) ==
  /\ isWalkable(grid, from)
  /\ to \in ReachedFrom(grid, {from})

\* C21: findPath returns null exactly when the target tile cannot be reached
\* from the start tile by a chain of 4-connected walkable tiles; a request
\* from a walkable tile to a blocked tile returns null, and POST
\* /api/pathfind answers it with 404.
C21_NullIffUnreachable ==
  /\ pf.pc = "done" =>
       (pf.result = NoPath <=>
          ~Reachable(pf.grid, toTile(pf.start), toTile(pf.target)))
  /\ (pf.pc = "responded" /\ pf.status # 400) =>
       /\ pf.status = 404 <=>
            ~Reachable(pf.grid, toTile(pf.start), toTile(pf.target))
       /\ (isWalkable(pf.grid, toTile(pf.start))
             /\ ~isWalkable(pf.grid, toTile(pf.target))) => pf.status = 404

\* POST /api/pathfind from a walkable tile to a blocked tile was answered 404.
C21_Witness ==
  /\ pf.pc = "responded"
  /\ pf.status = 404
  /\ isWalkable(pf.grid, toTile(pf.start))
  /\ ~isWalkable(pf.grid, toTile(pf.target))

\* The breadth-first search from a set of tiles reached in `depth` steps:
\* the number of steps after which the tile `to` is reached over walkable
\* 4-neighbours, -1 when it never is.
RECURSIVE BfsDepth(_, _, _, _, _)
BfsDepth(grid, reached, frontier, to, depth) ==
  IF to \in frontier THEN depth
  ELSE LET next == {t \in Tiles \ reached :
                      /\ isWalkable(grid, t)
                      /\ \E u \in frontier : heuristic(t, u) = 1}
       IN IF next = {} THEN -1
          ELSE BfsDepth(grid, reached \cup next, next, to, depth + 1)

\* The length of a shortest 4-connected walkable path from one tile to the
\* other, -1 when there is none.
ShortestWalkable(grid, from, to) ==
  IF ~isWalkable(grid, from) THEN -1
  ELSE BfsDepth(grid, {from}, {from}, to, 0)

\* C40, as stated: whenever findPath returns a path between two distinct
\* tiles, its number of steps is the length of a shortest 4-connected
\* walkable path from the start tile to the target tile, as a breadth-first
\* search finds it.
C40_PathIsShortest ==
  (/\ pf.pc = "done"
   /\ pf.result # NoPath
   /\ toTile(pf.start) # toTile(pf.target))
  => Len(pf.result) - 1 =
       ShortestWalkable(pf.grid, toTile(pf.start), toTile(pf.target))

\* findPath returned a path between two distinct tiles from a blocked start
\* tile, from which no walkable path leads anywhere.
C40_Witness ==
  /\ pf.pc = "done"
  /\ pf.result # NoPath
  /\ toTile(pf.start) # toTile(pf.target)
  /\ ~isWalkable(pf.grid, toTile(pf.start))
  /\ ShortestWalkable(pf.grid, toTile(pf.start), toTile(pf.target)) = -1

\* ------------------------------------------- resolvePresenceSecret, alone
\* The agent a1 deployed with or without an office id.
SecretPayloads ==
  {p \in AgentPayloads : p.agentId = "a1" /\ p.registryAgentId = ""}

\* The server has started with or without a static presence secret; the
\* tenant keys and the Registry hold a secret for the office or none.
InitSecret ==
  /\ InitServer
  /\ vt = VtNone
  /\ pf = PfNone
  /\ \E staticSecret \in {"", "k0"}, tenantSecret \in {"", "k1"},
        registrySecret \in {"", "k2"} :
       env = [NoEnv EXCEPT !.staticSecret = staticSecret,
                           !.tenantSecret = tenantSecret,
                           !.registrySecret = registrySecret]

\* Between two handshakes the secret of the office is stored, rotated or
\* withdrawn in the tenant keys or in the Registry.
TierChange ==
  /\ auth.pc = "idle"
  /\ \E tenantSecret \in {"", "k1"}, registrySecret \in {"", "k2"} :
       /\ <<tenantSecret, registrySecret>>
            # <<env.tenantSecret, env.registrySecret>>
       /\ SetWorld([World EXCEPT !.env.tenantSecret = tenantSecret,
                                 !.env.registrySecret = registrySecret])
  /\ lastOp' = NoOp
  /\ tickStart' = NoTick

\* NPC workers connecting to the public room, with the tiers answering what
\* they hold.
NextSecret ==
  \/ OpenPublicRoom
  \/ UpsertNpcWith(SecretPayloads, {TRUE}, {FALSE})
  \/ OnAuth
  \/ AuthTenantKeysLoadedOf({env.tenantSecret})
  \/ AuthRegistryFetchedOf({env.registrySecret})
  \/ AuthAnswered
  \/ TierChange

SpecSecret == InitSecret /\ [][NextSecret]_vars

\* The secret and the source of the first tier that yields a secret now, in
\* the order static env, tenant keys of the office, Registry credential of
\* the office; <<"", "null">> when none does.  The two tiers of an office
\* yield nothing when no office id is known.
FirstTier ==
  LET resolvedOfficeId ==
        IF auth.assignment.officeId # "" THEN auth.assignment.officeId
        ELSE env.officeId
  IN IF env.staticSecret # "" THEN <<env.staticSecret, "static">>
     ELSE IF resolvedOfficeId = "" THEN <<"", "null">>
     ELSE IF env.tenantSecret # "" THEN <<env.tenantSecret, "tenant-keys">>
     ELSE IF env.registrySecret # "" THEN <<env.registrySecret, "registry">>
     ELSE <<"", "null">>

\* C23: resolvePresenceSecret returns the secret of the first tier that
\* currently yields one, in the order static env, office tenant-keys,
\* per-agent Registry credential, tagged with that tier's source; it returns
\* null only when no tier yields a secret.
C23_FirstTierWins ==
  (auth.pc = "done" /\ auth.source # "") =>
    <<auth.secret, auth.source>> = FirstTier

\* C23, amended: the same of every resolution that did not return a cached
\* entry; one that did returns the entry the cache holds for the office and
\* the agent, and only when no static secret is set.
C23_FirstTierWinsUnlessCached ==
  (auth.pc = "done" /\ auth.source # "") =>
    IF auth.cached
    THEN /\ env.staticSecret = ""
         /\ Has(secretCache, auth.cacheKey)
         /\ auth.secret = secretCache[auth.cacheKey].secret
         /\ auth.source = secretCache[auth.cacheKey].source
    ELSE <<auth.secret, auth.source>> = FirstTier

\* A resolution has returned the cached secret of the tenant keys, which
\* hold none any more.
C23_Witness ==
  /\ auth.pc = "done"
  /\ auth.cached
  /\ auth.source = "tenant-keys"
  /\ env.tenantSecret = ""

\* C36: a handshake that reaches the cache with key officeId:lowercase
\* (agentId) returns the entry the cache holds when that entry is younger
\* than the TTL, and asks no tier; with no entry, or one whose TTL has
\* elapsed, it goes on to the tenant keys.  A tier that yields a secret
\* puts it in the cache under that key; one that yields none leaves the
\* cache as it is, and the cache never holds an empty secret.
C36_CachedWithinTtlResolvedAfter ==
  [][/\ \A r \in RoomIds, options \in HandshakeOptions, fresh \in BOOLEAN :
          (/\ auth.pc = "idle"
           /\ lastOp'.op = "onAuth"
           /\ roomState[r] = "live"
           /\ World' = onAuth(World, r, options, fresh)
           /\ auth'.cacheKey # <<>>)
          => /\ auth'.cacheKey[2] = Lower(options.agentId)
             /\ auth'.cacheKey[1] = auth'.assignment.officeId
             /\ secretCache' = secretCache
             /\ IF Has(secretCache, auth'.cacheKey) /\ fresh
                THEN /\ auth'.pc = "done"
                     /\ auth'.cached
                     /\ auth'.secret = secretCache[auth'.cacheKey].secret
                     /\ auth'.source = secretCache[auth'.cacheKey].source
                ELSE /\ auth'.pc = "tenant-keys"
                     /\ ~auth'.cached
     /\ auth.pc \in {"tenant-keys", "registry"} =>
          IF auth'.pc = "done" /\ auth'.secret # ""
          THEN /\ auth'.source = (IF auth.pc = "tenant-keys"
                                  THEN "tenant-keys" ELSE "registry")
               /\ secretCache' =
                    Put(secretCache, auth.cacheKey,
                        [secret |-> auth'.secret, source |-> auth'.source])
          ELSE secretCache' = secretCache
     /\ \A k \in DOMAIN secretCache' : secretCache'[k].secret # ""]_vars

\* A handshake has been answered from the cache, for an agent id given in
\* upper case, after an earlier one had the Registry tier resolve the
\* secret.
C36_Witness ==
  /\ auth.pc = "done"
  /\ auth.cached
  /\ auth.options.agentId = "A1"
  /\ auth.cacheKey = <<"o-alpha", "a1">>
  /\ auth.source = "registry"

\* ------------------------------------------------- the online counts
\* One public room with clients joining and leaving and the NPC calls on
\* it, for an agent that is deployed and for one that is not, the local
\* store failing or not.
NextPresence ==
  \/ OpenPublicRoom
  \/ OnJoin
  \/ OnLeave
  \/ UpsertNpcWith({p \in NpcPayloads("a1") : p.computerId = ""},
                   {FALSE}, BOOLEAN)
  \/ UpdateNpcStateOf({"a1", "a2"})
  \/ RemoveNpcOf({"a1", "a2"})

SpecPresence == Init /\ [][NextPresence]_vars

\* The online counts of the metadata of room r are those of its clients and
\* of its NPC assignments.
CountsAreCurrent(r) ==
  /\ presence[r].npcOnlineCount = Cardinality(DOMAIN npcAssignments[r])
  /\ presence[r].clientsOnlineCount = Cardinality(clients[r])
  /\ presence[r].totalOnlineCount =
       presence[r].clientsOnlineCount + presence[r].npcOnlineCount

\* C24: after every join, leave, upsertNpc, removeNpc and updateNpcState
\* that completes, the room metadata has npcOnlineCount = number of NPC
\* assignments of the room, clientsOnlineCount = number of connected clients
\* and totalOnlineCount = their sum.
C24_OnlineCountsAreCurrent ==
  lastOp.op \in {"onJoin", "onLeave", "upsertNpc", "removeNpc", "updateNpcState"}
    => CountsAreCurrent(lastOp.room)

\* An upsertNpc has returned in a room with a client: one NPC and one client
\* are counted.
C24_Witness ==
  /\ lastOp.op = "upsertNpc"
  /\ presence[lastOp.room].npcOnlineCount = 1
  /\ presence[lastOp.room].clientsOnlineCount = 1
  /\ presence[lastOp.room].totalOnlineCount = 2

\* C38: an updateNpcState for an agentId the room holds no assignment for
\* returns null and issues no Registry PATCH, and the Players, assignments,
\* computers, online counts, persisted rows and everything else are as they
\* were.
C38_UpdateOfUnknownAgentChangesNothing ==
  [][\A r \in RoomIds, agentId \in {"a1", "a2"} :
       (/\ lastOp'.op = "updateNpcState"
        /\ lastOp'.room = r
        /\ lastOp'.agent = agentId
        /\ ~Has(npcAssignments[r], agentId))
       => /\ lastOp'.entry = 0
          /\ lastOp'.patches = <<>>
          /\ World' = World]_vars

\* An updateNpcState for agent a2 has returned null in a room that holds an
\* assignment and a Player of agent a1 and whose online counts do not
\* count that NPC.
C38_Witness ==
  /\ lastOp.op = "updateNpcState"
  /\ lastOp.agent = "a2"
  /\ lastOp.entry = 0
  /\ Has(npcAssignments[lastOp.room], "a1")
  /\ ~Has(npcAssignments[lastOp.room], "a2")
  /\ ~CountsAreCurrent(lastOp.room)

\* ------------------------------------------- a tick during an outage
\* The rooms of the offices with an NPC deployed, and ticks whose GET
\* /offices fails.
NextOutage ==
  \/ EnsFetchedOf("boot", {Offices})
  \/ EnsCreated("boot")
  \/ DeployCharacterOf({"a1"}, {""}, {<<"alpha">>}, {})
  \/ DeployQueried
  \/ Tick
  \/ EnsFetchFailed("tick")
  \/ Dispose
  \/ DnDisconnected("tick")
  \/ DnQueried("tick")

SpecOutage == Init /\ [][NextOutage]_vars

\* The directory, the assignments of every room and the persisted rows of a
\* RoomsAndStores record.
DirectoryAndNpcs(rs) ==
  [f \in {"activeRooms", "namespaceRooms", "roomRows", "npcAssignments",
          "npcStore"} |-> rs[f]]

\* C27: a reconciler tick whose GET /offices call fails destroys no room and
\* removes no NPC: the directory, every room's assignments and the persisted
\* rows are the same after the tick as before it.
C27_FailedFetchChangesNothing ==
  (tickStart.failed /\ tickStart.done) =>
    DirectoryAndNpcs(RoomsAndStores(World)) = DirectoryAndNpcs(tickStart.before)

\* A tick whose fetch failed has ended, the directory having held the rooms
\* of the offices and a room an NPC when it began.
C27_Witness ==
  /\ tickStart.failed
  /\ tickStart.done
  /\ DOMAIN tickStart.before.namespaceRooms = {<<"alpha">>, <<"beta">>}
  /\ \E r \in RoomIds : tickStart.before.npcAssignments[r] # EmptyMap

\* ------------------------------------------ the reconciler, with fairness
\* The reconciler at start and on its ticks, with a Registry that answers,
\* fails or stays silent.
NextStall ==
  \/ Tick
  \/ \E c \in Callers : EnsFetchedOf(c, {Offices})
  \/ \E c \in Callers : EnsFetchFailed(c)
  \/ \E c \in Callers : RegistryTimeout(c)
  \/ \E c \in Callers : EnsCreated(c)
  \/ \E c \in Callers : EnsCreateFailed(c)
  \/ Dispose
  \/ \E c \in Callers : DnDisconnected(c)
  \/ \E c \in Callers : DnQueried(c)

\* The timers of the process fire and the matchmaker and the rooms of the
\* process take their steps; nothing makes the Registry answer.
FairStall ==
  /\ WF_vars(Tick)
  /\ \A c \in Callers :
       /\ WF_vars(RegistryTimeout(c))
       /\ WF_vars(EnsCreated(c) \/ EnsCreateFailed(c))
       /\ WF_vars(DnDisconnected(c))
       /\ WF_vars(DnQueried(c))
  /\ WF_vars(Dispose)

SpecStall == Init /\ [][NextStall]_vars /\ FairStall

\* C25: every runRegistryEnsure that acquires the in-flight gate eventually
\* releases it, also when ensureRegistryRooms throws or a Registry call
\* fails, so that a later tick runs ensureRegistryRooms again: the
\* reconciler is never permanently stalled.
C25_GateIsEventuallyReleased ==
  registrySyncInFlight ~> ~registrySyncInFlight

\* A run whose fetch of the offices failed has ended and released the gate.
C25_Witness ==
  /\ ~registrySyncInFlight
  /\ tickStart.failed
  /\ tickStart.done

\* C26: a Registry call whose request never receives a response is aborted
\* when its timeout fires and then returns to its caller: no Registry call
\* stays pending forever.
C26_NoCallPendingForever ==
  \A c \in Callers : (ens[c].pc = "fetch") ~> (ens[c].pc # "fetch")

\* The timeout of a fetch of the offices has fired, and the call is pending.
C26_Witness ==
  \E c \in Callers : ens[c].pc = "fetch" /\ ens[c].aborted

\* ------------------------------------------------ the agent sync
\* The agents the Registry lists: id, metadata.agentDomain, agentIdentifier
\* and name, "" for what is not given.  These agents carry
\* metadata.agentDomain, one of them in capitals.
RegistryAgents ==
  {[id |-> "r-1", agentDomain |-> "A1", agentIdentifier |-> "", name |-> "npc"],
   [id |-> "r-2", agentDomain |-> "a2", agentIdentifier |-> "", name |-> "npc"]}

DEFAULT_AGENT_POSITION == <<800, 200>>

\* String.prototype.includes('.') on the identifiers the model draws from.
includesDot(s) == s \in {"dana.office.xyz", "alpha.office.xyz"}

\* sanitizeLabel on the identifiers the model draws from: lower case, runs
\* of other characters than a-z, 0-9 and '-' turned into one '-', no '-'
\* at either end, 'agent' when nothing is left.
sanitizeLabel(value) ==
  CASE value = "Bob" -> "bob"
    [] value = "r-1" -> "r-1"
    [] value = "" -> "agent"
    [] OTHER -> value

\* `${label}.${namespaceSlug}.${baseDomain}`.toLowerCase(), with the default
\* base domain, on the labels and slugs the model draws from.
composeAgentDomain(label, namespaceSlug) ==
  CASE label = "bob" /\ namespaceSlug = <<"alpha">> -> "bob.alpha.office.xyz"
    [] label = "carol" /\ namespaceSlug = <<"alpha">> -> "carol.alpha.office.xyz"
    [] OTHER -> "agent.alpha.office.xyz"

\* resolveAgentIdentifier: the metadata domain, else a dotted identifier,
\* else the domain of the office, else the composed domain.
resolveAgentIdentifier(agent, office, namespaceSlug) ==
  IF agent.agentDomain # "" THEN Lower(agent.agentDomain)
  ELSE LET identifier == IF agent.agentIdentifier # ""
                         THEN agent.agentIdentifier ELSE agent.id
       IN IF includesDot(identifier) THEN Lower(identifier)
          ELSE IF office.domain # "" THEN Lower(office.domain)
          ELSE composeAgentDomain(sanitizeLabel(identifier), namespaceSlug)

\* buildNpcPayloadFromRegistry, for an agent without spawn metadata.
buildNpcPayloadFromRegistry(agent, office, namespaceSlug, agentId) ==
  [agentId |-> agentId, name |-> agent.name, avatarId |-> "adam",
   workstationId |-> "design-studio", position |-> DEFAULT_AGENT_POSITION,
   officeId |-> office.officeId, registryAgentId |-> agent.id,
   namespaceSlug |-> namespaceSlug, role |-> "GM", computerId |-> ""]

\* The callback of the timer, up to `await fetchRegistryAgents`: the lookup
\* of the room, and the next timer when there is none.
syncLookup(w, officeId) ==
  LET task == w.sync[officeId]
      normalizedSlug == LowerSlug(task.office.namespaceSlug)
      roomInstance == getRoomByNamespaceSlug(w, normalizedSlug)
  IN IF roomInstance = 0
     THEN IF task.attempt < SyncRetryLimit
          THEN scheduleRegistryAgentSync(w, task.office, task.attempt + 1)
          ELSE [w EXCEPT !.sync = Del(@, officeId)]
     ELSE [w EXCEPT !.sync[officeId].pc = "fetch",
                    !.sync[officeId].room = roomInstance]

\* What a run of the `for (const agent of agents)` loop has done: the state,
\* the PATCH requests issued, the agents upserted and the agents handed to
\* saveNpc.
SyncStart(w) == [world |-> w, patches |-> <<>>, upserted |-> {}, saved |-> {}]

\* The body of the `for (const agent of agents)` loop on the roomInstance
\* of the task: upsertNpc with skipPersistence, then saveNpc in its own try
\* block.
syncAgent(acc, task, agent, storeFails) ==
  LET w == acc.world
      normalizedSlug == LowerSlug(task.office.namespaceSlug)
      resolvedAgentId ==
        resolveAgentIdentifier(agent, task.office, normalizedSlug)
      payload == buildNpcPayloadFromRegistry(
                   agent, task.office, normalizedSlug, resolvedAgentId)
      options == [skipPersistence |-> TRUE, skipRegistrySync |-> FALSE]
      w1 == upsertNpc(w, task.room, payload, options)
      assignment == w1.npcAssignments[task.room][payload.agentId]
      w2 == IF storeFails THEN w1
            ELSE [w1 EXCEPT !.npcStore =
                    saveNpc(@, NpcRow(assignment, w.roomName[task.room]))]
  IN [world |-> w2,
      patches |-> acc.patches \o
        upsertNpcRegistrySync(w, task.room, payload, options),
      upserted |-> acc.upserted \cup {resolvedAgentId},
      saved |-> acc.saved \cup {assignment.agentId}]

\* The `for (const agent of agents)` loop: what an iteration leaves is the
\* value the next one starts from.
RECURSIVE syncAgents(_, _, _, _)
syncAgents(acc, task, rest, storeFails) ==
  IF rest = {} THEN acc
  ELSE LET agent == CHOOSE a \in rest : TRUE
       IN CHOOSE done \in
            {syncAgents(next, task, rest \ {agent}, storeFails) :
               next \in {syncAgent(acc, task, agent, storeFails)}} : TRUE

\* An agent sync that leaves the agents the room holds as they are.
syncFetchedSkippingKnown(w, officeId, agents, storeFails) ==
  LET task == w.sync[officeId]
      known(agent) ==
        Has(w.npcAssignments[task.room],
            resolveAgentIdentifier(agent, task.office,
                                   LowerSlug(task.office.namespaceSlug)))
  IN syncAgents(SyncStart([w EXCEPT !.sync = Del(@, officeId)]),
                task, {a \in agents : ~known(a)}, storeFails)

\* The callback from the answer of fetchRegistryAgents on.
syncFetched(w, officeId, agents, storeFails) ==
  syncAgents(SyncStart([w EXCEPT !.sync = Del(@, officeId)]),
             w.sync[officeId], agents, storeFails)

\* The timer of the agent sync of an office fires.
SyncTimerFired ==
  \E officeId \in DOMAIN sync :
    /\ sync[officeId].pc = "timer"
    /\ SetWorld(syncLookup(World, officeId))
    /\ lastOp' = [NoOp EXCEPT
         !.op = "agentSync:lookup",
         !.slug = LowerSlug(sync[officeId].office.namespaceSlug),
         !.room = getRoomByNamespaceSlug(
                    World, LowerSlug(sync[officeId].office.namespaceSlug)),
         !.attempt = sync[officeId].attempt,
         !.delay = sync[officeId].delay]
    /\ tickStart' = tickStart

\* fetchRegistryAgents answers the agent sync of an office with agents of
\* the Registry ([] when the call failed), with a local store whose writes
\* fail or not.
SyncAgentsFetchedOf(listed, storeFailures) ==
  \E officeId \in DOMAIN sync, agents \in listed, storeFails \in storeFailures :
    /\ sync[officeId].pc = "fetch"
    /\ \E done \in {syncFetched(World, officeId, agents, storeFails)} :
          /\ SetWorld(done.world)
          /\ lastOp' = [NoOp EXCEPT
               !.op = "agentSync",
               !.slug = LowerSlug(sync[officeId].office.namespaceSlug),
               !.room = sync[officeId].room,
               !.storeFailed = storeFails,
               !.patches = done.patches,
               !.agents =
                 {[agentId |-> resolveAgentIdentifier(
                                 a, sync[officeId].office,
                                 LowerSlug(sync[officeId].office.namespaceSlug)),
                   registryAgentId |-> a.id,
                   known |-> Has(npcAssignments[sync[officeId].room],
                                 resolveAgentIdentifier(
                                   a, sync[officeId].office,
                                   LowerSlug(sync[officeId].office.namespaceSlug)))] :
                  a \in agents},
               !.upserted = done.upserted,
               !.saved = done.saved]
    /\ tickStart' = tickStart

\* ------------------------------- the agent sync of an office without room
\* The reconciler with a matchmaker that creates no room, and the agent
\* syncs it schedules.
NextRetry ==
  \/ Tick
  \/ \E c \in Callers : EnsFetchedOf(c, {Offices})
  \/ \E c \in Callers : EnsCreateFailed(c)
  \/ SyncTimerFired

SpecRetry == Init /\ [][NextRetry]_vars

\* C22: an agent sync whose room is not in the directory looks the room up
\* at most 8 times in all, with a delay of min(500 * n, 3000) ms before
\* attempt n, and its office's agents are never fetched.
C22_AtMostEightLookups ==
  /\ lastOp.op = "agentSync:lookup" =>
       /\ lastOp.attempt + 1 <= 8
       /\ lastOp.delay = Min(500 * lastOp.attempt, 3000)
  /\ \A o \in DOMAIN sync : sync[o].pc # "fetch"

\* The ninth lookup of an agent sync has found no room, and no timer is set
\* for the office.
C22_Witness ==
  /\ lastOp.op = "agentSync:lookup"
  /\ lastOp.room = 0
  /\ lastOp.attempt = 8
  /\ lastOp.delay = 3000
  /\ \A o \in DOMAIN sync :
       LowerSlug(sync[o].office.namespaceSlug) # lastOp.slug

\* --------------------------------- the agent sync of a registry-backed room
\* The office the Registry declares, or stops declaring.
AlphaOffice == {o \in Offices : o.officeId = "o-alpha"}

\* The reconciler with a Registry that declares the office alpha or no
\* office, the agent syncs it schedules, and the teardown of the rooms it
\* prunes.
NextSync ==
  \/ \E c \in Callers : EnsFetchedOf(c, {AlphaOffice, {}})
  \/ \E c \in Callers : EnsCreated(c)
  \/ Tick
  \/ SyncTimerFired
  \/ SyncAgentsFetchedOf(SUBSET RegistryAgents, BOOLEAN)
  \/ Dispose
  \/ \E c \in Callers : DnDisconnected(c)
  \/ \E c \in Callers : DnQueried(c)

SpecSync == Init /\ [][NextSync]_vars

\* C28: an agent sync that is in flight while its room is torn down upserts
\* no NPC into the room that is no longer live and hands no row of it to the
\* local store.
C28_NoSyncIntoTornDownRoom ==
  (lastOp.op = "agentSync" /\ roomState[lastOp.room] # "live") =>
    /\ lastOp.upserted = {}
    /\ lastOp.saved = {}

\* The namespace is torn down, no room of it is in the directory and no
\* teardown runs; an agent sync has written an assignment into the disposed
\* room and a row of the namespace into the local store.
C28_Witness ==
  /\ lastOp.op = "agentSync"
  /\ roomState[lastOp.room] = "disposed"
  /\ ~Has(namespaceRooms, lastOp.slug)
  /\ \A t \in Tasks : dn[t].pc = "idle"
  /\ \E a \in lastOp.upserted :
       /\ Has(npcAssignments[lastOp.room], a)
       /\ Has(NpcRowsOf(npcStore, lastOp.slug), a)

\* C30: an agent sync that gets agents from the Registry upserts every one
\* of them into the room, hands its row to the local store and issues one
\* Registry agent PATCH for it, whether the room held the agent or not.
C30_EveryAgentIsUpsertedAgain ==
  lastOp.op = "agentSync" =>
    \A a \in lastOp.agents :
      /\ Has(npcAssignments[lastOp.room], a.agentId)
      /\ a.agentId \in lastOp.saved
      /\ ~lastOp.storeFailed => Has(npcStore, a.agentId)
      /\ Cardinality({i \in DOMAIN lastOp.patches :
            lastOp.patches[i].registryAgentId = a.registryAgentId}) = 1

\* An agent sync has upserted an agent the room held already, and issued
\* its PATCH.
C30_Witness ==
  /\ lastOp.op = "agentSync"
  /\ roomState[lastOp.room] = "live"
  /\ \E a \in lastOp.agents : a.known
  /\ Len(lastOp.patches) = Cardinality(lastOp.agents)

\* ------------------------------ the agent sync and a Registry that changes
\* The Registry lists every agent for the office alpha when the process
\* starts.
InitConverge ==
  /\ InitServer /\ vt = VtNone /\ pf = PfNone
  /\ env = [NoEnv EXCEPT !.agents = RegistryAgents]

\* The Registry stops listing an agent for the office.
RegistryUnlists ==
  \E agent \in env.agents :
    /\ SetWorld([World EXCEPT !.env.agents = @ \ {agent}])
    /\ lastOp' = NoOp
    /\ tickStart' = tickStart

\* The reconciler of a Registry that keeps the office alpha and answers
\* every call, the agent syncs, and the agents leaving the Registry.
NextConverge ==
  \/ Tick
  \/ \E c \in Callers : EnsFetchedOf(c, {AlphaOffice})
  \/ \E c \in Callers : EnsCreated(c)
  \/ SyncTimerFired
  \/ SyncAgentsFetchedOf({env.agents}, {FALSE})
  \/ RegistryUnlists

\* The timers fire, and the Registry and the matchmaker answer.
FairConverge ==
  /\ WF_vars(Tick)
  /\ \A c \in Callers :
       /\ WF_vars(EnsFetchedOf(c, {AlphaOffice}))
       /\ WF_vars(EnsCreated(c))
  /\ WF_vars(SyncTimerFired)
  /\ WF_vars(SyncAgentsFetchedOf({env.agents}, {FALSE}))

SpecConverge == InitConverge /\ [][NextConverge]_vars /\ FairConverge

\* The agentId of a Registry agent is assigned in a live room.
AssignedInRoom(agent) ==
  \E r \in RoomIds :
    /\ roomState[r] = "live"
    /\ Has(npcAssignments[r],
           resolveAgentIdentifier(agent, CHOOSE o \in AlphaOffice : TRUE,
                                  <<"alpha">>))

\* C29: an agent that is assigned in the room of an office and that the
\* Registry has stopped listing for that office is eventually removed from
\* the room by the reconciler ticks that follow.
C29_UnlistedAgentIsEventuallyRemoved ==
  \A agent \in RegistryAgents :
    (AssignedInRoom(agent) /\ agent \notin env.agents)
      ~> ~AssignedInRoom(agent)

\* An agent sync has run after the Registry stopped listing an agent, and
\* the room holds the assignment and the Player of that agent.
C29_Witness ==
  /\ lastOp.op = "agentSync"
  /\ roomState[lastOp.room] = "live"
  /\ \E agent \in RegistryAgents :
       /\ agent \notin env.agents
       /\ Has(npcAssignments[lastOp.room], Lower(agent.agentDomain))
       /\ Has(players[lastOp.room], getNpcKey(Lower(agent.agentDomain)))

\* ------------------------------------- the agentIds of the agent sync
\* The office alpha as the Registry declares it, without and with a domain.
IdentOffices ==
  {[officeId |-> "o-alpha", namespaceSlug |-> <<"alpha">>, domain |-> d] :
     d \in {"", "alpha.office.xyz"}}

\* Agents without a metadata domain: two whose identifiers differ in letter
\* case only, one with another identifier and one with a dotted identifier.
IdentAgents ==
  {[id |-> "r-3", agentDomain |-> "", agentIdentifier |-> "bob", name |-> "npc"],
   [id |-> "r-4", agentDomain |-> "", agentIdentifier |-> "Bob", name |-> "npc"],
   [id |-> "r-5", agentDomain |-> "", agentIdentifier |-> "carol", name |-> "npc"],
   [id |-> "r-6", agentDomain |-> "", agentIdentifier |-> "dana.office.xyz",
    name |-> "npc"]}

\* The reconciler of the office alpha and the agent syncs of its room.
NextIdent ==
  \/ \E c \in Callers : EnsFetchedOf(c, {{o} : o \in IdentOffices})
  \/ EnsCreated("boot")
  \/ Tick
  \/ SyncTimerFired
  \/ SyncAgentsFetchedOf(SUBSET IdentAgents, {FALSE})

SpecIdent == Init /\ [][NextIdent]_vars

\* C31: the agents of one agent sync get distinct agentIds, and afterwards
\* the room holds for every one of them an assignment of its own.
C31_DistinctAgentsDistinctIds ==
  lastOp.op = "agentSync" =>
    /\ \A a, b \in lastOp.agents :
         a.registryAgentId # b.registryAgentId => a.agentId # b.agentId
    /\ \A a \in lastOp.agents :
         /\ Has(npcAssignments[lastOp.room], a.agentId)
         /\ npcAssignments[lastOp.room][a.agentId].registryAgentId =
              a.registryAgentId

\* An agent sync of two agents has left one assignment in a room that held
\* none.
C31_Witness ==
  /\ lastOp.op = "agentSync"
  /\ Cardinality({a.registryAgentId : a \in lastOp.agents}) = 2
  /\ \A a \in lastOp.agents : ~a.known
  /\ Cardinality(DOMAIN npcAssignments[lastOp.room]) = 1

\* ------------------------------- destroyNamespace and the other rooms
\* The registry rooms alpha and beta, an NPC deployed to either, and DELETE
\* requests for beta with the dispose they await.
NextFrame ==
  \/ EnsFetchedOf("boot", {Offices})
  \/ EnsCreated("boot")
  \/ DeployCharacterOf({"a1"}, {""}, {<<"alpha">>, <<"beta">>}, {})
  \/ DeployQueried
  \/ ApiDestroyNamespaceOf({<<"beta">>}, {"none"})
  \/ Dispose
  \/ DnDisconnected("api")
  \/ DnQueried("api")

SpecFrame == Init /\ [][NextFrame]_vars

\* The namespaces of the directory of a RoomsAndStores record that are not
\* among the candidates of slug.
OutsideCandidates(rs, slug) ==
  {ns \in DOMAIN rs.namespaceRooms :
     \A i \in DOMAIN slugCandidates(slug) : slugCandidates(slug)[i] # ns}

NextPlace ==
  \/ EnsFetchedOf("boot", {Offices})
  \/ EnsCreated("boot")
  \/ DeployCharacterOf({"a1"}, {""}, {<<>>, <<"alpha">>, <<"beta">>}, RoomIds)
  \/ DeployQueried
  \/ SyncTimerFired
  \/ SyncAgentsFetchedOf({RegistryAgents}, {FALSE})

SpecPlace == Init /\ [][NextPlace]_vars

\* C33, as stated: every NPC assignment of a live room carries the
\* namespace and the roomId of that room.
C33_AssignmentsCarryTheirRoom ==
  \A r \in RoomIds : \A a \in DOMAIN npcAssignments[r] :
    roomState[r] = "live" =>
      /\ npcAssignments[r][a].namespaceSlug = roomSlug[r]
      /\ npcAssignments[r][a].roomId = r

\* C33, amended: every NPC assignment of a live room carries the roomId of
\* that room; an NPC deployed for a namespace the directory has a room for
\* is placed in that room, with the namespace of that room; and the agent
\* sync places its NPCs in the room of its namespace.
C33_PlacedInTheRoomTheDirectoryHas ==
  /\ \A r \in RoomIds : \A a \in DOMAIN npcAssignments[r] :
       roomState[r] = "live" => npcAssignments[r][a].roomId = r
  /\ (lastOp.op = "deploy" /\ lastOp.room # 0) =>
       /\ Has(npcAssignments[lastOp.room], lastOp.agent)
       /\ npcAssignments[lastOp.room][lastOp.agent].namespaceSlug =
            roomSlug[lastOp.room]
       /\ roomSlug[lastOp.room] = lastOp.slug
  /\ lastOp.op = "agentSync" =>
       \A a \in lastOp.upserted :
         /\ Has(npcAssignments[lastOp.room], a)
         /\ npcAssignments[lastOp.room][a].namespaceSlug = roomSlug[lastOp.room]

\* An NPC deployed for namespace beta, for which the directory has no room,
\* is in room alpha with namespaceSlug beta.
C33_Witness ==
  \E r \in RoomIds :
    /\ roomState[r] = "live"
    /\ roomSlug[r] = <<"alpha">>
    /\ Has(npcAssignments[r], "a1")
    /\ npcAssignments[r]["a1"].namespaceSlug = <<"beta">>
    /\ npcAssignments[r]["a1"].roomId = r

\* ------------------------------------- the computer an assignment names
\* The public room with clients joining and leaving and one NPC upserted
\* with every payload, updated and removed.
NextOccupy ==
  \/ OpenPublicRoom
  \/ OnJoin
  \/ OnLeave
  \/ UpsertNpcWith(NpcPayloads("a1"), {TRUE}, {FALSE})
  \/ UpdateNpcStateOf({"a1"})
  \/ RemoveNpcOf({"a1"})

SpecOccupy == Init /\ [][NextOccupy]_vars

\* C34, as stated: an NPC assignment of a room carries a computerId exactly
\* when the key of the NPC is in connectedUser of the computer with that id.
C34_ComputerIdIffSeated ==
  \A r \in RoomIds : \A a \in DOMAIN npcAssignments[r] :
    roomState[r] = "live" =>
      LET computerId == npcAssignments[r][a].computerId
      IN IF computerId # ""
         THEN /\ computerId \in DOMAIN computers[r]
              /\ getNpcKey(a) \in computers[r][computerId]
         ELSE ComputersOf(r, getNpcKey(a)) = {}

\* An upsertNpc has returned whose payload named a computer the room does
\* not have: the assignment carries that computerId and the NPC is at no
\* computer.
C34_Witness ==
  /\ lastOp.op = "upsertNpc"
  /\ Has(npcAssignments[lastOp.room], lastOp.agent)
  /\ npcAssignments[lastOp.room][lastOp.agent].computerId = "9"
  /\ ComputersOf(lastOp.room, getNpcKey(lastOp.agent)) = {}

\* ------------------------------------------------ upsertNpc, applied twice
\* What C35 compares of two worlds: the Players, the occupancy of the
\* computers, the assignments (assignedAt is not kept) and the npcs rows.
SameNpcState(w1, w2) ==
  /\ w1.players = w2.players
  /\ w1.computers = w2.computers
  /\ w1.npcAssignments = w2.npcAssignments
  /\ w1.npcStore = w2.npcStore

NextJoin ==
  \/ OpenPublicRoom
  \/ OnJoin
  \/ OnLeave
  \/ ConnectToComputer
  \/ DisconnectFromComputer
  \/ ConnectToWhiteboard
  \/ DisconnectFromWhiteboard
  \/ UpsertNpcWith({p \in NpcPayloads("a1") : p.computerId = ""},
                   {TRUE}, {FALSE})
  \/ RemoveNpcOf({"a1"})

SpecJoin == Init /\ [][NextJoin]_vars

\* C37, as stated: in a live room the Player of a human client exists
\* exactly while the client is joined, and the session of a client that is
\* not joined is in connectedUser of no computer and of no whiteboard.
C37_PlayerExactlyWhileJoined ==
  \A r \in RoomIds : \A sessionId \in SessionIds :
    roomState[r] = "live" =>
      /\ Has(players[r], SessionKey(sessionId)) <=> sessionId \in clients[r]
      /\ sessionId \notin clients[r] =>
           /\ ComputersOf(r, SessionKey(sessionId)) = {}
           /\ WhiteboardsOf(r, SessionKey(sessionId)) = {}

\* A client that was at two computers and a whiteboard has left, while the
\* other client stays joined at a whiteboard.
C37_Witness ==
  /\ lastOp.op = "onLeave"
  /\ lastOp.entry = 3
  /\ \E sessionId \in clients[lastOp.room] :
       WhiteboardsOf(lastOp.room, SessionKey(sessionId)) # {}
  /\ \E sessionId \in SessionIds : sessionId \notin clients[lastOp.room]

\* ------------------------------------------- the row of a torn-down room
\* Rooms clients create under the names Beta and beta, and DELETE requests
\* for the namespace beta with the dispose they await.
NextRow ==
  \/ ClientCreateOf({<<"Beta">>, <<"beta">>}, {FALSE}, {""})
  \/ ApiDestroyNamespaceOf({<<"beta">>}, {"none"})
  \/ Dispose
  \/ DnDisconnected("api")
  \/ DnQueried("api")

SpecRow == Init /\ [][NextRow]_vars

\* C39, as stated: when destroyNamespace(slug) has returned for a slug the
\* directory held a live room for, the rooms table holds no row whose name
\* is that slug in any letter case.
C39_TeardownDeletesTheRoomRow ==
  (/\ tickStart.calls = 1 /\ tickStart.ended
   /\ Has(tickStart.before.namespaceRooms, tickStart.slug)
   /\ tickStart.before.roomState[
        tickStart.before.namespaceRooms[tickStart.slug]] = "live")
  => \A name \in roomRows : LowerSlug(name) # tickStart.slug

\* destroyNamespace('beta') has returned; when it began the room of the
\* namespace was live and the only row of the table was that of the name
\* Beta, and the table still holds it.
C39_Witness ==
  /\ tickStart.calls = 1 /\ tickStart.ended
  /\ tickStart.slug = <<"beta">>
  /\ Has(tickStart.before.namespaceRooms, <<"beta">>)
  /\ tickStart.before.roomState[
       tickStart.before.namespaceRooms[<<"beta">>]] = "live"
  /\ tickStart.before.roomRows = {<<"Beta">>}
  /\ roomRows = {<<"Beta">>}
  /\ \A r \in RoomIds : roomState[r] # "live"

\* --------------------------------------------------- verifyManagerToken
\* The ways a token is altered after it was signed: not at all, one
\* character of one segment replaced by another character of the alphabet,
\* or the signature segment cut off.
Tamperings ==
  {<<"none", 1, 1, 0>>, <<"cut", 1, 1, 0>>}
    \cup {<<"replace", seg, pos, ch>> : seg \in 1..3, pos \in 1..7, ch \in Sextets}

Applies(token, tampering) ==
  IF tampering[1] # "replace" THEN TRUE
  ELSE IF tampering[3] > Len(token[tampering[2]]) THEN FALSE
  ELSE token[tampering[2]][tampering[3]] # tampering[4]

Tamper(token, tampering) ==
  IF tampering[1] = "none" THEN token
  ELSE IF tampering[1] = "cut" THEN <<token[1], token[2]>>
  ELSE [seg \in 1..3 |->
          IF seg # tampering[2] THEN token[seg]
          ELSE [pos \in 1..Len(token[seg]) |->
                  IF pos = tampering[3] THEN tampering[4] ELSE token[seg][pos]]]

\* The payloads signed for the calls that are looked at.
SignedPayloads ==
  {p \in TokenPayloads : p.agentId \in {"", "a1"} /\ p.namespace = <<>>}

\* A token was signed with a secret, possibly altered, and is about to be
\* verified with a secret.
InitTok ==
  /\ InitServer
  /\ pf = PfNone
  /\ env = NoEnv
  /\ \E signSecret \in Secrets, secret \in Secrets, payload \in SignedPayloads,
        tampering \in Tamperings :
       /\ Applies(SignManagerToken(signSecret, payload), tampering)
       /\ vt = [pc |-> "ready", signSecret |-> signSecret, payload |-> payload,
                token |-> Tamper(SignManagerToken(signSecret, payload), tampering),
                secret |-> secret, result |-> TokenError("")]

VerifyToken ==
  /\ vt.pc = "ready"
  /\ SetWorld([World EXCEPT
       !.vt = [vt EXCEPT !.pc = "done",
                         !.result = verifyManagerToken(vt.token, vt.secret)]])
  /\ UNCHANGED <<lastOp, tickStart>>

NextTok == VerifyToken

SpecTok == InitTok /\ [][NextTok]_vars

\* C9, as stated: the token signed with a secret for a payload with no exp
\* or a future exp verifies with that secret and yields that payload; a
\* token verified with another secret fails; a token in which any segment
\* differs from the signed token fails.
C9_TokenRoundTripAndTamper ==
  vt.pc = "done" =>
    LET signed == SignManagerToken(vt.signSecret, vt.payload)
    IN /\ (/\ vt.token = signed
           /\ vt.secret = vt.signSecret
           /\ (vt.payload.exp = 0 \/ vt.payload.exp > Now))
          => (vt.result.ok /\ vt.result.payload = vt.payload)
       /\ vt.secret # vt.signSecret => ~vt.result.ok
       /\ vt.token # signed => ~vt.result.ok

\* A token whose signature segment differs from the signed one has been
\* accepted.
C9_Witness ==
  /\ vt.pc = "done"
  /\ vt.result.ok
  /\ Len(vt.token) = 3
  /\ vt.token[3] # SignManagerToken(vt.signSecret, vt.payload)[3]

====
